---- MODULE Spec2Model ----
(***************************************************************************)
(* QuizMaster2: the record store (StorageService over IndexedDB), the      *)
(* student profile's delete flow and the Scanner's capture/review/save     *)
(* flow, modelled as a state machine.  Every asynchronous handler is split *)
(* at its awaits: one action per storage transaction or service reply,     *)
(* the synchronous continuation that follows the await being part of the   *)
(* same action.                                                            *)
(***************************************************************************)
EXTENDS Integers, Sequences, FiniteSets, TLC

(***************************************************************************)
(* Bounds of the model                                                     *)
(***************************************************************************)
\* generateId() draws from Math.random(); ids are the numbers 1..MaxId,
\* standing for the base-36 strings in key order
MaxId == 2
\* the clock read by Date.now() / new Date() runs from 0 to MaxTime
MaxTime == 1
\* number of addQuiz invocations in one behaviour: when calls may overlap,
\* and when they may not
MaxCalls == 2
MaxSeqCalls == 3
\* number of deleteStudent invocations in one behaviour
MaxDeletes == 1
\* number of handleSave invocations in one behaviour
MaxSaves == 1
\* number of handleSave invocations in a session that saves again
MaxSessionSaves == 2
\* number of records in the database getStats and getStudentHistory read
MaxRecords == 3

Callers == {1, 2}
Ids == 1..MaxId
Times == 0..MaxTime

(***************************************************************************)
(* Strings are sequences of characters, so that trim() and toLowerCase()   *)
(* are computed rather than assumed.                                       *)
(***************************************************************************)
NameAsha == <<"A", "s", "h", "a">>
NamePadded == <<" ", "a", "s", "h", "a", " ">>
NameUpper == <<"A", "S", "H", "A">>
NameBo == <<"B", "o">>
Names == {NameAsha, NamePadded, NameUpper, NameBo}

IsSpace(ch) == ch \in {" ", "\n"}

RECURSIVE TrimStart(_)
TrimStart(s) ==
  IF s = <<>> THEN s
  ELSE IF IsSpace(Head(s)) THEN TrimStart(Tail(s)) ELSE s

RECURSIVE TrimEnd(_)
TrimEnd(s) ==
  IF s = <<>> THEN s
  ELSE IF IsSpace(s[Len(s)]) THEN TrimEnd(SubSeq(s, 1, Len(s) - 1)) ELSE s

\* String.prototype.trim
Trim(s) == TrimEnd(TrimStart(s))

LowerChar(ch) ==
  CASE ch = "A" -> "a"
    [] ch = "S" -> "s"
    [] ch = "H" -> "h"
    [] ch = "B" -> "b"
    [] OTHER -> ch

\* String.prototype.toLowerCase
ToLowerCase(s) == [i \in 1..Len(s) |-> LowerChar(s[i])]

(***************************************************************************)
(* Entities (types.ts)                                                     *)
(***************************************************************************)
NoStudent == [id |-> 0, name |-> <<>>, joinedAt |-> 0]
NoQuiz == [id |-> 0, studentId |-> 0, studentName |-> <<>>, subject |-> "",
           score |-> 0, totalMarks |-> 0, timestamp |-> 0]
NoData == [studentName |-> <<>>, subject |-> "", score |-> 0, totalMarks |-> 0]

\* the reviewed results handed to addQuiz: score / totalMarks / subject
Payloads == {[subject |-> "Quiz", score |-> 8, totalMarks |-> 10]}
Datas == {[studentName |-> n, subject |-> p.subject, score |-> p.score,
           totalMarks |-> p.totalMarks] : n \in Names, p \in Payloads}

NoDelete == [id |-> 0, removed |-> 0]

\* the two Scanner components of the repository: components/Scanner.tsx and
\* its later revision with skipReference and 'Save & Next Student'
Builds == {"Scanner.tsx", "part_001"}
Modes == {"EXTRACT", "GRADE"}
NoImage == "null"
DataUrl == "data:image/jpeg"
NoError == "null"
NoClosure == [mode |-> "EXTRACT", referenceImage |-> NoImage,
              skipReference |-> FALSE]
\* what analyzeQuizImage / gradeStudentPaper resolve with
ServiceResults == {[studentName |-> NameAsha, subject |-> "Quiz", score |-> 8,
                    totalMarks |-> 10]}
\* what the user retypes the name to on the review screen
TypedNames == {NamePadded}
\* how they reject: the message contains "API key", contains "403", or neither
ServiceErrors == {"API key", "403", "other"}

(***************************************************************************)
(* Numbers.  A JavaScript number is an IEEE 754 binary64 value.  The ones  *)
(* getStats computes with are zero, the positive finite values, Infinity   *)
(* and NaN.  A positive finite value is 1.b[2]b[3]...b[53] * 2^e in        *)
(* binary: b lists the 53 bits of the significand, the leading 1 first.    *)
(* Every operation returns the exact result rounded to the nearest such    *)
(* value, ties to the even significand.                                    *)
(***************************************************************************)
Precision == 53

Zero == [kind |-> "zero", e |-> 0, b |-> <<>>]
Infinity == [kind |-> "inf", e |-> 0, b |-> <<>>]
NaN == [kind |-> "nan", e |-> 0, b |-> <<>>]

\* a list given by a rule, as the list of its elements
Listed(f) == SubSeq(f, 1, Len(f))

\* the list in reverse
Reverse(list) == Listed([i \in 1..Len(list) |-> list[Len(list) - i + 1]])

\* a bit string without its leading zeros
StripZeros(bits) ==
  LET ones == {i \in 1..Len(bits) : bits[i] = 1}
  IN IF ones = {} THEN <<>>
     ELSE SubSeq(bits, CHOOSE i \in ones : \A j \in ones : i <= j, Len(bits))

\* the number of bits of the integer n >= 0
RECURSIVE BitLength(_)
BitLength(n) == IF n = 0 THEN 0 ELSE 1 + BitLength(n \div 2)

\* the bits of the positive integer n, the leading 1 first
IntBits(n) ==
  Listed([i \in 1..BitLength(n) |-> (n \div 2^(BitLength(n) - i)) % 2])

\* a significand plus one unit in its last place
Increment(b) ==
  LET zeros == {i \in 1..Len(b) : b[i] = 0}
  IN IF zeros = {}
     THEN [carry |-> 1, b |-> [i \in 1..Len(b) |-> IF i = 1 THEN 1 ELSE 0]]
     ELSE LET p == CHOOSE i \in zeros : \A j \in zeros : j <= i
          IN [carry |-> 0,
              b |-> [i \in 1..Len(b) |->
                       IF i < p THEN b[i] ELSE IF i = p THEN 1 ELSE 0]]

\* the value nearest to the exact binary number whose bits are `bits`
\* (leading 1 first, of weight 2^e), followed by something nonzero if
\* `sticky`: round to nearest, ties to even
RoundBits(e, bits, sticky) ==
  LET n == Len(bits)
      keep == Listed([i \in 1..Precision |-> IF i <= n THEN bits[i] ELSE 0])
      guard == IF n > Precision THEN bits[Precision + 1] ELSE 0
      rest == sticky \/ \E i \in (Precision + 2)..n : bits[i] = 1
      up == guard = 1 /\ (rest \/ keep[Precision] = 1)
      inc == Increment(keep)
  IN IF up THEN [kind |-> "num", e |-> e + inc.carry, b |-> inc.b]
     ELSE [kind |-> "num", e |-> e, b |-> keep]

\* the number whose value is the integer n >= 0
FromInt(n) ==
  IF n = 0 THEN Zero ELSE RoundBits(BitLength(n) - 1, IntBits(n), FALSE)

\* Long arithmetic is done eight binary digits at a time.
\* digit k (k >= 1, least significant first) of a list of digits, 0 beyond it
DigitAt(digits, k) == IF k <= Len(digits) THEN digits[k] ELSE 0

\* the digits grouped by eight, least significant group first
Pack(digits) ==
  Listed([j \in 1..((Len(digits) + 7) \div 8) |->
            LET k == 8 * (j - 1)
            IN DigitAt(digits, k + 1) + 2 * DigitAt(digits, k + 2)
               + 4 * DigitAt(digits, k + 3) + 8 * DigitAt(digits, k + 4)
               + 16 * DigitAt(digits, k + 5) + 32 * DigitAt(digits, k + 6)
               + 64 * DigitAt(digits, k + 7) + 128 * DigitAt(digits, k + 8)])

\* carries propagated through the groups: every group below 256
RECURSIVE Propagate(_, _, _, _)
Propagate(groups, j, c, acc) ==
  IF j > Len(groups)
  THEN IF c = 0 THEN acc ELSE Propagate(groups, j, c \div 256, Append(acc, c % 256))
  ELSE LET v == groups[j] + c
       IN Propagate(groups, j + 1, v \div 256, Append(acc, v % 256))

\* the bits of groups below 256 (least significant group first), the most
\* significant bit first, without leading zeros
Unpack(groups) ==
  LET n == 8 * Len(groups)
  IN StripZeros(Listed([i \in 1..n |->
                   (groups[((n - i) \div 8) + 1] \div 2^((n - i) % 8)) % 2]))

\* the bits of the sum of a list of digits (least significant first)
SumBits(digits) == Unpack(Propagate(Pack(Listed(digits)), 1, 0, <<>>))

\* long division of groups below 256 (most significant first) by the
\* positive integer t: the quotient's groups and the remainder
RECURSIVE LongDiv(_, _, _, _, _)
LongDiv(groups, j, t, r, q) ==
  IF j > Len(groups) THEN [q |-> q, r |-> r]
  ELSE LET v == 256 * r + groups[j]
       IN LongDiv(groups, j + 1, t, v % t, Append(q, v \div t))

\* the bit of weight 2^k of the positive finite x
BitAt(x, k) ==
  IF k <= x.e /\ k > x.e - Precision THEN x.b[x.e - k + 1] ELSE 0

Min(a, b) == IF a <= b THEN a ELSE b
Max(a, b) == IF a >= b THEN a ELSE b

\* x + y
Add(x, y) ==
  IF x.kind = "nan" \/ y.kind = "nan" THEN NaN
  ELSE IF x.kind = "inf" \/ y.kind = "inf" THEN Infinity
  ELSE IF x.kind = "zero" THEN y
  ELSE IF y.kind = "zero" THEN x
  ELSE LET lo == Min(x.e, y.e) - (Precision - 1)
           hi == Max(x.e, y.e)
           sum == SumBits([i \in 1..(hi - lo + 1) |->
                             BitAt(x, lo + i - 1) + BitAt(y, lo + i - 1)])
       IN RoundBits(lo + Len(sum) - 1, sum, FALSE)

\* x * c for an integer c > 0
MulInt(x, c) ==
  IF x.kind # "num" THEN x
  ELSE LET prod == SumBits([i \in 1..Precision |-> x.b[Precision - i + 1] * c])
       IN RoundBits(x.e - Precision + Len(prod), prod, FALSE)

\* the quotient of the bit string `bits` by the positive integer t, its
\* first bit being of weight 2^e
DivBits(e, bits, t) ==
  LET d == LongDiv(Reverse(Pack(Reverse(bits))), 1, t, 0, <<>>)
      quot == Unpack(Reverse(d.q))
  IN RoundBits(e - (Len(bits) - Len(quot)), quot, d.r # 0)

\* x / t for an integer t >= 0
DivInt(x, t) ==
  IF x.kind = "nan" THEN NaN
  ELSE IF t = 0 THEN (IF x.kind = "zero" THEN NaN ELSE Infinity)
  ELSE IF x.kind # "num" THEN x
  ELSE LET width == 8 * ((Precision + 2 + BitLength(t) + 7) \div 8)
       IN DivBits(x.e, Listed([i \in 1..width |->
                                 IF i <= Precision THEN x.b[i] ELSE 0]), t)

\* x > y
Greater(x, y) ==
  IF x.kind = "nan" \/ y.kind = "nan" THEN FALSE
  ELSE IF y.kind = "inf" THEN FALSE
  ELSE IF x.kind = "inf" THEN TRUE
  ELSE IF x.kind = "zero" THEN FALSE
  ELSE IF y.kind = "zero" THEN TRUE
  ELSE \/ x.e > y.e
       \/ /\ x.e = y.e
          /\ \E i \in 1..Precision :
               /\ x.b[i] > y.b[i]
               /\ \A j \in 1..(i - 1) : x.b[j] = y.b[j]

(***************************************************************************)
(* Statistics and history (StorageService.getStats, getStudentHistory)     *)
(***************************************************************************)
\* highestScorer: null
NoScorer == [name |-> <<>>, score |-> 0, subject |-> ""]
\* Dashboard's stats before getStats has resolved (null)
NoStats == [totalQuizzes |-> -1, averageScore |-> NaN, highestScorer |-> NoScorer]

\* getAll's result: the records of an object store in key order
RECURSIVE KeyOrder(_)
KeyOrder(store) ==
  IF store = {} THEN <<>>
  ELSE LET first == CHOOSE q \in store : \A r \in store : q.id <= r.id
       IN <<first>> \o KeyOrder(store \ {first})

\* q.score / q.totalMarks
Pct(q) == DivInt(FromInt(q.score), q.totalMarks)

\* quizzes.reduce((acc, q) => acc + (q.score / q.totalMarks), 0)
RECURSIVE TotalPercentage(_, _, _)
TotalPercentage(list, i, acc) ==
  IF i > Len(list) THEN acc
  ELSE TotalPercentage(list, i + 1, Add(acc, Pct(list[i])))

\* a comparison that lets a later record of equal percentage win
ReplacesPrevOnTie(current, prev) == ~Greater(Pct(prev), Pct(current))

\* the reduce callback of `highest`: currPct > prevPct
ReplacesPrev(current, prev) == Greater(Pct(current), Pct(prev))

\* quizzes.reduce((prev, current) => ...) without an initial value
RECURSIVE Highest(_, _, _)
Highest(list, i, prev) ==
  IF i > Len(list) THEN prev
  ELSE Highest(list, i + 1, IF ReplacesPrev(list[i], prev) THEN list[i] ELSE prev)

\* statistics computed without the test for an empty list
GetStatsOfUnguarded(list) ==
  [totalQuizzes |-> Len(list),
   averageScore |-> MulInt(DivInt(TotalPercentage(list, 1, Zero), Len(list)), 100),
   highestScorer |-> NoScorer]

\* what getStats resolves with when getQuizzes resolved with list
GetStatsOf(list) ==
  IF Len(list) = 0
  THEN [totalQuizzes |-> 0, averageScore |-> Zero, highestScorer |-> NoScorer]
  ELSE LET totalPercentage == TotalPercentage(list, 1, Zero)
           highest == Highest(list, 2, list[1])
       IN [totalQuizzes |-> Len(list),
           averageScore |-> MulInt(DivInt(totalPercentage, Len(list)), 100),
           highestScorer |-> [name |-> highest.studentName,
                              score |-> highest.score,
                              subject |-> highest.subject]]

\* Array.prototype.sort((a, b) => b.timestamp - a.timestamp) is stable: q
\* goes behind every record that is not older than it
InsertByTimestamp(sorted, q) ==
  LET ahead == {i \in 1..Len(sorted) : sorted[i].timestamp >= q.timestamp}
      k == IF ahead = {} THEN 0 ELSE CHOOSE i \in ahead : \A j \in ahead : j <= i
  IN SubSeq(sorted, 1, k) \o <<q>> \o SubSeq(sorted, k + 1, Len(sorted))

RECURSIVE SortByTimestampDesc(_, _, _)
SortByTimestampDesc(list, i, sorted) ==
  IF i > Len(list) THEN sorted
  ELSE SortByTimestampDesc(list, i + 1, InsertByTimestamp(sorted, list[i]))

\* the records of the student as getAll lists them
GetStudentHistoryUnsorted(list, studentId) ==
  SelectSeq(list, LAMBDA q : q.studentId = studentId)

\* what getStudentHistory(studentId) resolves with
GetStudentHistoryOf(list, studentId) ==
  SortByTimestampDesc(SelectSeq(list, LAMBDA q : q.studentId = studentId), 1, <<>>)

(***************************************************************************)
(* Response parsing (geminiService.ts: extractJson, JSON.parse)            *)
(* A response text is a sequence of characters.  A JSON value is a record  *)
(* of one shape: a number, a string, or an object of members whose values  *)
(* are numbers or strings.                                                 *)
(***************************************************************************)
Quote == "\""
\* the character U+0060, which a string of this language cannot hold
Backtick == "backtick"
DigitChars == <<"0", "1", "2", "3", "4", "5", "6", "7", "8", "9">>
KeyStudentName == <<"s", "t", "u", "d", "e", "n", "t", "N", "a", "m", "e">>
KeyScore == <<"s", "c", "o", "r", "e">>
KeyTotalMarks == <<"t", "o", "t", "a", "l", "M", "a", "r", "k", "s">>
KeySubject == <<"s", "u", "b", "j", "e", "c", "t">>
\* the properties the response schema requires
RequiredKeys == {KeyStudentName, KeyScore, KeyTotalMarks, KeySubject}
\* the pattern of the first replace: three backticks and json
FenceJson == <<Backtick, Backtick, Backtick, "j", "s", "o", "n">>
\* the pattern of the second replace: three backticks
Fence == <<Backtick, Backtick, Backtick>>

JsonNumber(n) == [type |-> "number", n |-> n, s |-> <<>>, members |-> <<>>]
JsonString(s) == [type |-> "string", n |-> 0, s |-> s, members |-> <<>>]
JsonObject(members) ==
  [type |-> "object", n |-> 0, s |-> <<>>, members |-> members]
\* JSON.parse threw a SyntaxError
SyntaxError == [type |-> "error", n |-> 0, s |-> <<>>, members |-> <<>>]

IsDigit(ch) == \E d \in 1..10 : DigitChars[d] = ch
DigitValue(ch) == (CHOOSE d \in 1..10 : DigitChars[d] = ch) - 1

RECURSIVE NumberValue(_)
NumberValue(digits) ==
  IF digits = <<>> THEN 0
  ELSE 10 * NumberValue(SubSeq(digits, 1, Len(digits) - 1))
         + DigitValue(digits[Len(digits)])

RECURSIVE NumberChars(_)
NumberChars(n) ==
  IF n < 10 THEN <<DigitChars[n + 1]>>
  ELSE NumberChars(n \div 10) \o <<DigitChars[(n % 10) + 1]>>

Quoted(s) == <<Quote>> \o s \o <<Quote>>

\* JSON.stringify of a value whose strings need no escaping
RECURSIVE StringifyMembers(_)
Stringify(v) ==
  CASE v.type = "number" -> NumberChars(v.n)
    [] v.type = "string" -> Quoted(v.s)
    [] OTHER -> <<"{">> \o StringifyMembers(v.members) \o <<"}">>
StringifyMembers(members) ==
  IF members = <<>> THEN <<>>
  ELSE LET m == Head(members)
           text == Quoted(m.key) \o <<":">>
                     \o (IF m.str THEN Quoted(m.s) ELSE NumberChars(m.n))
       IN IF Len(members) = 1 THEN text
          ELSE text \o <<",">> \o StringifyMembers(Tail(members))

\* the pattern occurs in s at position i
OccursAt(s, pattern, i) ==
  /\ i + Len(pattern) - 1 <= Len(s)
  /\ \A k \in 1..Len(pattern) : s[i + k - 1] = pattern[k]

\* where a global replace matches: leftmost first, never overlapping
RECURSIVE MatchesFrom(_, _, _)
MatchesFrom(s, pattern, from) ==
  LET occurs == {i \in from..Len(s) : OccursAt(s, pattern, i)}
  IN IF occurs = {} THEN {}
     ELSE LET m == CHOOSE i \in occurs : \A j \in occurs : i <= j
          IN {m} \cup MatchesFrom(s, pattern, m + Len(pattern))

\* String.prototype.replace with a global pattern and an empty replacement
RemoveAll(s, pattern) ==
  LET matches == MatchesFrom(s, pattern, 1)
      Matched(i) == \E m \in matches : m <= i /\ i < m + Len(pattern)
      marked == Listed([i \in 1..Len(s) |->
                  IF Matched(i) THEN <<s[i], FALSE>> ELSE <<s[i], TRUE>>])
      kept == SelectSeq(marked, LAMBDA c : c[2])
  IN Listed([i \in 1..Len(kept) |-> kept[i][1]])

\* String.prototype.indexOf, -1 when absent
IndexOf(s, ch) ==
  LET at == {i \in 1..Len(s) : s[i] = ch}
  IN IF at = {} THEN -1
     ELSE (CHOOSE i \in at : \A j \in at : i <= j) - 1

\* String.prototype.lastIndexOf, -1 when absent
LastIndexOf(s, ch) ==
  LET at == {i \in 1..Len(s) : s[i] = ch}
  IN IF at = {} THEN -1
     ELSE (CHOOSE i \in at : \A j \in at : i >= j) - 1

\* String.prototype.substring: the arguments are swapped when start > end
Substring(s, start, end) ==
  LET lo == Max(0, Min(Min(start, end), Len(s)))
      hi == Max(0, Min(Max(start, end), Len(s)))
  IN SubSeq(s, lo + 1, hi)

NoToken == [type |-> "none", n |-> 0, s |-> <<>>]

\* the tokens of a JSON text, in order; "bad" for what JSON does not allow
Tokens(t) ==
  LET n == Len(t)
      quotes == {i \in 1..n : t[i] = Quote}
      Rank(i) == Cardinality({q \in quotes : q <= i})
      Inside(i) == t[i] # Quote /\ Rank(i) % 2 = 1
      Opens(i) == t[i] = Quote /\ Rank(i) % 2 = 1
      Closes(i) == t[i] = Quote /\ Rank(i) % 2 = 0
      later(i) == {q \in quotes : q > i}
      CloseOf(i) == CHOOSE q \in later(i) : \A r \in later(i) : q <= r
      IsDigitAt(i) == i >= 1 /\ i <= n /\ ~Inside(i) /\ IsDigit(t[i])
      EndOf(i) == CHOOSE j \in i..n :
                    /\ \A k \in i..j : IsDigitAt(k)
                    /\ ~IsDigitAt(j + 1)
      NumberAt(i) ==
        LET digits == SubSeq(t, i, EndOf(i))
        IN IF Len(digits) > 1 /\ digits[1] = "0"
           THEN [type |-> "bad", n |-> 0, s |-> digits]
           ELSE [type |-> "number", n |-> NumberValue(digits), s |-> <<>>]
      TokenAt(i) ==
        IF Opens(i)
        THEN IF later(i) = {} THEN [type |-> "bad", n |-> 0, s |-> <<>>]
             ELSE LET content == SubSeq(t, i + 1, CloseOf(i) - 1)
                  IN IF \E k \in 1..Len(content) : content[k] = "\n"
                     THEN [type |-> "bad", n |-> 0, s |-> content]
                     ELSE [type |-> "string", n |-> 0, s |-> content]
        ELSE IF Inside(i) \/ Closes(i) \/ IsSpace(t[i]) THEN NoToken
        ELSE IF t[i] \in {"{", "}", ":", ","}
        THEN [type |-> "punct", n |-> 0, s |-> <<t[i]>>]
        ELSE IF IsDigitAt(i)
        THEN IF IsDigitAt(i - 1) THEN NoToken ELSE NumberAt(i)
        ELSE [type |-> "bad", n |-> 0, s |-> <<t[i]>>]
  IN SelectSeq(Listed([i \in 1..n |-> TokenAt(i)]),
               LAMBDA k : k.type # "none")

IsPunct(token, ch) == token.type = "punct" /\ token.s = <<ch>>
IsValueToken(token) == token.type \in {"number", "string"}

\* JSON.parse on the texts of this model: a number, a string, or an object
\* of members with number or string values; a SyntaxError for the rest
JsonParse(t) ==
  LET tokens == Tokens(t)
      m == Len(tokens)
      count == (m - 1) \div 4
      MemberAt(k) ==
        LET base == 4 * k - 2
        IN [key |-> tokens[base].s,
            str |-> tokens[base + 2].type = "string",
            s |-> tokens[base + 2].s,
            n |-> tokens[base + 2].n]
      WellFormed(k) ==
        LET base == 4 * k - 2
        IN /\ tokens[base].type = "string"
           /\ IsPunct(tokens[base + 1], ":")
           /\ IsValueToken(tokens[base + 2])
           /\ IF k = count THEN IsPunct(tokens[base + 3], "}")
              ELSE IsPunct(tokens[base + 3], ",")
  IN IF m = 1 /\ tokens[1].type = "number" THEN JsonNumber(tokens[1].n)
     ELSE IF m = 1 /\ tokens[1].type = "string" THEN JsonString(tokens[1].s)
     ELSE IF m = 2 /\ IsPunct(tokens[1], "{") /\ IsPunct(tokens[2], "}")
     THEN JsonObject(<<>>)
     ELSE IF /\ m >= 5
             /\ (m - 1) % 4 = 0
             /\ IsPunct(tokens[1], "{")
             /\ \A k \in 1..count : WellFormed(k)
     THEN JsonObject(Listed([k \in 1..count |-> MemberAt(k)]))
     ELSE SyntaxError

\* what a call settles with: a returned value or a thrown Error
Pending == [status |-> "pending", value |-> SyntaxError, message |-> ""]
Returned(v) == [status |-> "returned", value |-> v, message |-> ""]
Threw(msg) == [status |-> "threw", value |-> SyntaxError, message |-> msg]

\* extractJson up to JSON.parse: the text handed to the JSON parser
CleanOf(text) ==
  LET trimmed == Trim(text)
      clean == RemoveAll(RemoveAll(trimmed, FenceJson), Fence)
      firstBrace == IndexOf(clean, "{")
      lastBrace == LastIndexOf(clean, "}")
  IN IF firstBrace # -1 /\ lastBrace # -1
     THEN Substring(clean, firstBrace, lastBrace + 1)
     ELSE clean

\* extractJson
ExtractJson(text) ==
  LET parsed == JsonParse(CleanOf(text))
  IN IF parsed = SyntaxError
     THEN Threw("AI response was not valid JSON. Please try again.")
     ELSE Returned(parsed)

\* String.prototype.startsWith
StartsWith(s, prefix) == OccursAt(s, prefix, 1)

\* the earlier extractJson, up to its first JSON.parse: a fence is removed
\* only where the trimmed text starts with one, and only at its two ends
StripFence(s, opening) ==
  LET rest == SubSeq(s, Len(opening) + 1, Len(s))
  IN IF Len(rest) >= Len(Fence) /\ OccursAt(rest, Fence, Len(rest) - Len(Fence) + 1)
     THEN SubSeq(rest, 1, Len(rest) - Len(Fence))
     ELSE rest

EarlierCleanOf(text) ==
  LET clean == Trim(text)
  IN IF StartsWith(clean, FenceJson) THEN StripFence(clean, FenceJson)
     ELSE IF StartsWith(clean, Fence) THEN StripFence(clean, Fence)
     ELSE clean

\* the match of the earlier extractJson's pattern: from the first opening
\* brace to the last closing brace after it; the empty text when none
BraceMatch(text) ==
  LET firstBrace == IndexOf(text, "{")
      lastBrace == LastIndexOf(text, "}")
  IN IF firstBrace # -1 /\ lastBrace > firstBrace
     THEN Substring(text, firstBrace, lastBrace + 1)
     ELSE <<>>

\* extractJson, earlier version
EarlierExtractJson(text) ==
  LET parsed == JsonParse(EarlierCleanOf(text))
      jsonMatch == BraceMatch(text)
  IN IF parsed # SyntaxError THEN Returned(parsed)
     ELSE IF jsonMatch = <<>> THEN Threw("No JSON found in response")
     ELSE IF JsonParse(jsonMatch) = SyntaxError
     THEN Threw("Could not extract valid JSON from response")
     ELSE Returned(JsonParse(jsonMatch))

\* JSON.parse(cleanJsonString(text)) of the first revision: the fence is
\* removed as in the earlier extractJson and there is no search for braces
FirstParse(text) ==
  IF text = <<>> THEN Threw("No response text from AI")
  ELSE LET parsed == JsonParse(EarlierCleanOf(text))
       IN IF parsed = SyntaxError THEN Threw("SyntaxError")
          ELSE Returned(parsed)

\* the revisions of the service module: the two of geminiService.ts and the
\* first one, kept in index.tsx
Revisions == {"latest", "earlier", "first"}
ServiceCalls == {"analyzeQuizImage", "gradeStudentPaper"}

\* analyzeQuizImage and gradeStudentPaper, once generateContent has resolved
SettleOf(revision, text) ==
  IF revision = "first" THEN FirstParse(text)
  ELSE IF text = <<>> THEN Threw("No response text")
  ELSE IF revision = "latest" THEN ExtractJson(text)
  ELSE EarlierExtractJson(text)

\* what a call settles with when no API key is configured: getAiClient of
\* the first revision throws
ApiKeyMissing == Threw("API Key is missing.")
\* the later revisions hand the undefined key to the GoogleGenAI
\* constructor, which throws
ConstructorThrew == Threw("GoogleGenAI")
\* or constructs a client, whose request the service rejects
ServiceRejected == Threw("generateContent")

\* no call of the service has settled
NoOutcome == [call |-> "", revision |-> "", settled |-> Pending]

(***************************************************************************)
(* Image preprocessing (Scanner: processImage)                             *)
(***************************************************************************)
MAX_WIDTH == 1600
\* no image decoded, no canvas sized
NoCanvas == [width |-> 0, height |-> 0]

\* the integer part of the bits of x of weight 2^k and below
RECURSIVE IntegerPartFrom(_, _)
IntegerPartFrom(x, k) ==
  IF k < 0 THEN 0 ELSE BitAt(x, k) * 2^k + IntegerPartFrom(x, k - 1)

\* what assigning the number x to canvas.width or canvas.height stores: its
\* integer part, 0 for what is not finite
Truncate(x) == IF x.kind # "num" THEN 0 ELSE IntegerPartFrom(x, x.e)

\* the size processImage gives the canvas for a source of this size
CanvasSize(source) ==
  IF source.width > MAX_WIDTH
  THEN [width |-> MAX_WIDTH,
        height |-> Truncate(MulInt(DivInt(FromInt(MAX_WIDTH), source.width),
                                   source.height))]
  ELSE source

VARIABLES
  students,     \* object store 'students', keyPath id: a set of Student
  quizzes,      \* object store 'quizzes', keyPath id: a set of QuizRecord
  now,          \* the system clock
  pc,           \* per addQuiz invocation: the await it is suspended at
  data,         \* per invocation: the argument of addQuiz
  student,      \* per invocation: the local `student`
  created,      \* per invocation: the `if (!student)` branch was taken
  newQuiz,      \* per invocation: the local `newQuiz`
  ncalls,       \* number of addQuiz invocations so far
  profileId,    \* StudentDetail: its studentId prop, 0 when not mounted
  isDeleting,   \* StudentDetail: isDeleting
  deleteError,  \* StudentDetail: deleteError
  lastDelete,   \* the last completed deleteStudent: id and records removed
  ndeletes,     \* number of deleteStudent invocations so far
  build,        \* which Scanner is built: Scanner.tsx or its later revision
  mounted,      \* App: currentView = SCANNER, a Scanner is mounted
  mode,         \* Scanner: mode
  image,        \* Scanner: image
  referenceImage, \* Scanner: referenceImage
  skipReference,  \* Scanner: skipReference
  isProcessing, \* Scanner: isProcessing
  error,        \* Scanner: error
  isSaving,     \* Scanner: isSaving
  extractedData, \* Scanner: extractedData
  fpc,          \* Scanner: the await handleFileChange is suspended at
  closure,      \* Scanner: the state handleFileChange closed over
  saveMode,     \* per invocation: the mode handleSave closed over
  stale,        \* per invocation: the Scanner that issued it has unmounted
  stats,        \* Dashboard: stats, what getStats last resolved with
  history,      \* StudentDetail: history, what getStudentHistory resolved with
  responseText, \* the text of the response generateContent resolved with
  outcome,      \* what analyzeQuizImage / gradeStudentPaper settled with
  img,          \* processImage: width and height of the decoded source image
  canvas,       \* processImage: width and height of the canvas it draws on
  apiKey,       \* process.env.API_KEY is set
  sent          \* number of generateContent requests sent to the AI service

storeVars == <<students, quizzes>>
callVars == <<pc, data, student, created, newQuiz, ncalls>>
detailVars == <<profileId, isDeleting, deleteError, lastDelete, ndeletes>>
scannerVars == <<build, mounted, mode, image, referenceImage, skipReference,
                 isProcessing, error, isSaving, extractedData, fpc, closure,
                 saveMode, stale>>
viewVars == <<stats, history>>
serviceVars == <<responseText, outcome, apiKey, sent>>
imageVars == <<img, canvas>>
vars == <<students, quizzes, now, pc, data, student, created, newQuiz,
          ncalls, profileId, isDeleting, deleteError, lastDelete, ndeletes,
          build, mounted, mode, image, referenceImage, skipReference,
          isProcessing, error, isSaving, extractedData, fpc, closure,
          saveMode, stale, stats, history, responseText, outcome, img,
          canvas, apiKey, sent>>

(***************************************************************************)
(* IndexedDB helpers                                                       *)
(***************************************************************************)
\* the object store after store.put(data): create-or-replace keyed by id
Put(store, entity) == {e \in store : e.id # entity.id} \cup {entity}

\* a comparison that trims but does not fold case
NameMatchesCaseSensitive(s, inputName) == Trim(s.name) = inputName

\* the comparison of addQuiz's students.find callback
NameMatches(s, inputName) == ToLowerCase(Trim(s.name)) = ToLowerCase(inputName)

\* students.find over getAll's result, which is in key order: the match
\* with the least id, or NoStudent for undefined
Find(snapshot, inputName) ==
  LET matches == {s \in snapshot : NameMatches(s, inputName)}
  IN IF matches = {} THEN NoStudent
     ELSE CHOOSE s \in matches : \A t \in matches : s.id <= t.id

\* the Student addQuiz builds when none was found
NewStudent(id, inputName, t) == [id |-> id, name |-> inputName, joinedAt |-> t]

\* a record that keeps the name as typed
NewQuizRawName(d, st, id, t) ==
  [id |-> id, studentId |-> st.id, studentName |-> d.studentName,
   subject |-> d.subject, score |-> d.score, totalMarks |-> d.totalMarks,
   timestamp |-> t]

\* the QuizRecord addQuiz builds
NewQuiz(d, st, id, t) ==
  [id |-> id, studentId |-> st.id, studentName |-> st.name,
   subject |-> d.subject, score |-> d.score, totalMarks |-> d.totalMarks,
   timestamp |-> t]

\* the state when the App has rendered the dashboard over a database that
\* holds the students ss and the records qs, the Scanner component being
\* the one of build b
InitService(b, ss, qs, text, source, key) ==
  /\ students = ss
  /\ quizzes = qs
  /\ now = 0
  /\ pc = [c \in Callers |-> "idle"]
  /\ data = [c \in Callers |-> NoData]
  /\ student = [c \in Callers |-> NoStudent]
  /\ created = [c \in Callers |-> FALSE]
  /\ newQuiz = [c \in Callers |-> NoQuiz]
  /\ ncalls = 0
  /\ profileId = 0
  /\ isDeleting = FALSE
  /\ deleteError = ""
  /\ lastDelete = NoDelete
  /\ ndeletes = 0
  /\ build = b
  /\ mounted = FALSE
  /\ mode = "EXTRACT"
  /\ image = NoImage
  /\ referenceImage = NoImage
  /\ skipReference = FALSE
  /\ isProcessing = FALSE
  /\ error = NoError
  /\ isSaving = FALSE
  /\ extractedData = NoData
  /\ fpc = "idle"
  /\ closure = NoClosure
  /\ saveMode = [c \in Callers |-> "EXTRACT"]
  /\ stale = [c \in Callers |-> FALSE]
  /\ stats = NoStats
  /\ history = <<>>
  /\ responseText = text
  /\ outcome = NoOutcome
  /\ img = source
  /\ apiKey = key
  /\ sent = 0
  /\ canvas = NoCanvas

InitImage(b, ss, qs, text, source) == InitService(b, ss, qs, text, source, TRUE)

InitResponse(b, ss, qs, text) == InitImage(b, ss, qs, text, NoCanvas)

InitStore(b, ss, qs) == InitResponse(b, ss, qs, <<>>)

\* the state after the database is created
InitWith(b) == InitStore(b, {}, {})

Init == InitWith("part_001")

\* the clock advances
Tick ==
  /\ now < MaxTime
  /\ now' = now + 1
  /\ UNCHANGED <<storeVars, callVars, detailVars, viewVars, serviceVars, imageVars, scannerVars>>

(***************************************************************************)
(* StorageService.addQuiz                                                  *)
(***************************************************************************)
\* addQuiz(d) is invoked and suspends at `await StorageService.getStudents()`
\* (the invocation takes the least free slot of Callers)
AddQuizInvoked(c, d, limit) ==
  /\ pc[c] = "idle"
  /\ \A b \in Callers : b < c => pc[b] # "idle"
  /\ ncalls < limit
  /\ pc' = [pc EXCEPT ![c] = "getStudents"]
  /\ data' = [data EXCEPT ![c] = d]
  /\ student' = [student EXCEPT ![c] = NoStudent]
  /\ created' = [created EXCEPT ![c] = FALSE]
  /\ newQuiz' = [newQuiz EXCEPT ![c] = NoQuiz]
  /\ ncalls' = ncalls + 1
  /\ UNCHANGED <<storeVars, now, detailVars, viewVars, serviceVars, imageVars>>

\* addQuiz(d) invoked by a caller other than the Scanner
AddQuizCall(c, d, limit) ==
  /\ AddQuizInvoked(c, d, limit)
  /\ UNCHANGED scannerVars

\* a resolution that stores the matched student again, stamped with the
\* current time
GetStudentsResolvedUpsert(c, sid, qid) ==
  /\ pc[c] = "getStudents"
  /\ LET inputName == Trim(data[c].studentName)
         found == Find(students, inputName)
     IN IF found # NoStudent
        THEN /\ student' = [student EXCEPT ![c] = [found EXCEPT !.joinedAt = now]]
             /\ created' = [created EXCEPT ![c] = FALSE]
             /\ pc' = [pc EXCEPT ![c] = "putStudent"]
        ELSE /\ student' = [student EXCEPT ![c] = NewStudent(sid, inputName, now)]
             /\ created' = [created EXCEPT ![c] = TRUE]
             /\ pc' = [pc EXCEPT ![c] = "putStudent"]
  /\ UNCHANGED <<storeVars, now, data, newQuiz, ncalls, detailVars, viewVars, serviceVars, imageVars, scannerVars>>

\* getStudents resolves with the snapshot; the name is resolved against it.
\* With a match the record is built (id qid, timestamp now) and its put is
\* issued; with none a Student is built (id sid, joinedAt now) and its put
\* is issued.
GetStudentsResolved(c, sid, qid) ==
  /\ pc[c] = "getStudents"
  /\ LET inputName == Trim(data[c].studentName)
         found == Find(students, inputName)
     IN IF found # NoStudent
        THEN /\ student' = [student EXCEPT ![c] = found]
             /\ created' = [created EXCEPT ![c] = FALSE]
             /\ newQuiz' = [newQuiz EXCEPT ![c] = NewQuiz(data[c], found, qid, now)]
             /\ pc' = [pc EXCEPT ![c] = "putQuiz"]
        ELSE /\ student' = [student EXCEPT ![c] = NewStudent(sid, inputName, now)]
             /\ created' = [created EXCEPT ![c] = TRUE]
             /\ newQuiz' = newQuiz
             /\ pc' = [pc EXCEPT ![c] = "putStudent"]
  /\ UNCHANGED <<storeVars, now, data, ncalls, detailVars, viewVars, serviceVars, imageVars, scannerVars>>

\* getStudents rejects (openDB or the request fails): addQuiz rejects
GetStudentsRejected(c) ==
  /\ pc[c] = "getStudents"
  /\ pc' = [pc EXCEPT ![c] = "failed"]
  /\ UNCHANGED <<storeVars, now, data, student, created, newQuiz, ncalls,
                 detailVars, viewVars, serviceVars, imageVars, scannerVars>>

\* put(STORE_STUDENTS, student) resolves: the student is stored, the record
\* is built (id qid, timestamp now) and its put is issued
PutStudentResolved(c, qid) ==
  /\ pc[c] = "putStudent"
  /\ students' = Put(students, student[c])
  /\ newQuiz' = [newQuiz EXCEPT ![c] = NewQuiz(data[c], student[c], qid, now)]
  /\ pc' = [pc EXCEPT ![c] = "putQuiz"]
  /\ UNCHANGED <<quizzes, now, data, student, created, ncalls, detailVars, viewVars, serviceVars, imageVars, scannerVars>>

\* put(STORE_STUDENTS, student) rejects: addQuiz rejects
PutStudentRejected(c) ==
  /\ pc[c] = "putStudent"
  /\ pc' = [pc EXCEPT ![c] = "failed"]
  /\ UNCHANGED <<storeVars, now, data, student, created, newQuiz, ncalls,
                 detailVars, viewVars, serviceVars, imageVars, scannerVars>>

\* put(STORE_QUIZZES, newQuiz) resolves: addQuiz returns newQuiz
PutQuizResolved(c) ==
  /\ pc[c] = "putQuiz"
  /\ quizzes' = Put(quizzes, newQuiz[c])
  /\ pc' = [pc EXCEPT ![c] = "done"]
  /\ UNCHANGED <<students, now, data, student, created, newQuiz, ncalls,
                 detailVars, viewVars, serviceVars, imageVars, scannerVars>>

\* put(STORE_QUIZZES, newQuiz) rejects: addQuiz rejects
PutQuizRejected(c) ==
  /\ pc[c] = "putQuiz"
  /\ pc' = [pc EXCEPT ![c] = "failed"]
  /\ UNCHANGED <<storeVars, now, data, student, created, newQuiz, ncalls,
                 detailVars, viewVars, serviceVars, imageVars, scannerVars>>

\* addQuiz has settled and its caller's continuation runs
AddQuizSettled(c) ==
  /\ pc[c] \in {"done", "failed"}
  /\ pc' = [pc EXCEPT ![c] = "idle"]
  /\ data' = [data EXCEPT ![c] = NoData]
  /\ student' = [student EXCEPT ![c] = NoStudent]
  /\ created' = [created EXCEPT ![c] = FALSE]
  /\ newQuiz' = [newQuiz EXCEPT ![c] = NoQuiz]
  /\ UNCHANGED <<storeVars, now, ncalls, detailVars, viewVars, serviceVars, imageVars>>

\* a caller other than the Scanner has consumed the result (or the
\* rejection) of addQuiz
AddQuizReturn(c) ==
  /\ AddQuizSettled(c)
  /\ UNCHANGED scannerVars

(***************************************************************************)
(* StudentDetail: the delete flow                                          *)
(***************************************************************************)
DELETE_CODE == "12345"

\* a delete that removes the Student and leaves its records
DeleteStudentOnly(id) ==
  [students |-> {s \in students : s.id # id}, quizzes |-> quizzes]

\* a delete that removes the records and leaves the Student
DeleteRecordsOnly(id) ==
  [students |-> students, quizzes |-> {q \in quizzes : q.studentId # id}]

\* the two collections after deleteStudentCascade(id): the Student and
\* every QuizRecord referencing it are removed as one unit
DeleteStudentCascade(id) ==
  [students |-> {s \in students : s.id # id},
   quizzes |-> {q \in quizzes : q.studentId # id}]

\* App.handleStudentSelect: the profile of student id is shown
OpenProfile(id) ==
  /\ profileId = 0
  /\ ndeletes < MaxDeletes
  /\ profileId' = id
  /\ isDeleting' = FALSE
  /\ deleteError' = ""
  /\ lastDelete' = NoDelete
  /\ history' = <<>>
  /\ UNCHANGED <<storeVars, now, callVars, ndeletes, scannerVars, stats, serviceVars, imageVars>>

\* a handler that calls deleteStudent whatever was typed
HandleDeleteUnchecked(deleteCode) ==
  /\ profileId # 0
  /\ ~isDeleting
  /\ ndeletes < MaxDeletes
  /\ isDeleting' = TRUE
  /\ deleteError' = deleteError
  /\ ndeletes' = ndeletes + 1
  /\ UNCHANGED <<storeVars, now, callVars, profileId, lastDelete, scannerVars, viewVars, serviceVars, imageVars>>

\* handleDelete up to `await StorageService.deleteStudent(studentId)`
HandleDelete(deleteCode) ==
  /\ profileId # 0
  /\ ~isDeleting
  /\ ndeletes < MaxDeletes
  /\ IF deleteCode # DELETE_CODE
     THEN /\ deleteError' = "Incorrect code. Please enter 12345."
          /\ isDeleting' = isDeleting
          /\ ndeletes' = ndeletes
     ELSE /\ isDeleting' = TRUE
          /\ deleteError' = deleteError
          /\ ndeletes' = ndeletes + 1
  /\ UNCHANGED <<storeVars, now, callVars, profileId, lastDelete, scannerVars, viewVars, serviceVars, imageVars>>

\* deleteStudent resolves: both collections are updated, the modal closes
\* and onBack() leaves the profile
DeleteStudentResolved ==
  /\ isDeleting
  /\ students' = DeleteStudentCascade(profileId).students
  /\ quizzes' = DeleteStudentCascade(profileId).quizzes
  /\ lastDelete' = [id |-> profileId,
                    removed |-> Cardinality({q \in quizzes : q.studentId = profileId})]
  /\ profileId' = 0
  /\ isDeleting' = FALSE
  /\ UNCHANGED <<now, callVars, deleteError, ndeletes, scannerVars, viewVars, serviceVars, imageVars>>

\* deleteStudent rejects: nothing is removed, the profile shows the error
DeleteStudentRejected ==
  /\ isDeleting
  /\ deleteError' = "Failed to delete student."
  /\ isDeleting' = FALSE
  /\ UNCHANGED <<storeVars, now, callVars, profileId, lastDelete, ndeletes, scannerVars, viewVars, serviceVars, imageVars>>

(***************************************************************************)
(* Scanner                                                                 *)
(***************************************************************************)
\* the review screen is rendered (`if (image && extractedData)`), else the
\* capture screen
Review == image # NoImage /\ extractedData # NoData

\* the fallback results substituted when the service call fails
ExtractionPlaceholder ==
  IF build = "Scanner.tsx"
  THEN [studentName |-> <<"U", "n", "k", "n", "o", "w", "n">>, subject |-> "Quiz",
        score |-> 0, totalMarks |-> 0]
  ELSE [studentName |-> <<"U", "n", "k", "n", "o", "w", "n">>, subject |-> "Quiz",
        score |-> 0, totalMarks |-> 100]

GradingPlaceholder ==
  IF build = "Scanner.tsx"
  THEN [studentName |-> <<"C", "h", "e", "c", "k", " ", "N", "a", "m", "e">>,
        subject |-> "General", score |-> 0, totalMarks |-> 10]
  ELSE [studentName |-> <<"U", "n", "k", "n", "o", "w", "n">>,
        subject |-> "General", score |-> 0, totalMarks |-> 10]

\* handleApiError's message for a rejection of the service call
ApiErrorMessage(err) ==
  IF err = "API key" THEN "API Key Error. Please check your setup."
  ELSE IF err = "403" THEN "Access Denied. Check API permissions."
  ELSE "Analysis failed. Please try again."

\* the error processExtraction sets
ExtractionError(err) ==
  IF build = "Scanner.tsx" THEN "Could not read values. Please edit manually."
  ELSE ApiErrorMessage(err)

\* the error processGrading sets (Scanner.tsx shows err.message)
GradingError(err) ==
  IF build = "Scanner.tsx" THEN err ELSE ApiErrorMessage(err)

\* the Scanner unmounts: its state is dropped, what it has in flight will
\* find no component to update
Unmounted ==
  /\ mounted' = FALSE
  /\ mode' = "EXTRACT"
  /\ image' = NoImage
  /\ referenceImage' = NoImage
  /\ skipReference' = FALSE
  /\ isProcessing' = FALSE
  /\ error' = NoError
  /\ isSaving' = FALSE
  /\ extractedData' = NoData
  /\ fpc' = "idle"
  /\ closure' = NoClosure

\* the scan button of the navigation bar: a fresh Scanner is mounted
OpenScanner ==
  /\ ~mounted
  /\ mounted' = TRUE
  /\ UNCHANGED <<build, mode, image, referenceImage, skipReference,
                 isProcessing, error, isSaving, extractedData, fpc, closure,
                 saveMode, stale>>
  /\ UNCHANGED <<storeVars, now, callVars, detailVars, viewVars, serviceVars, imageVars>>

\* the close button: onCancel()
Cancel ==
  /\ mounted
  /\ ~Review
  /\ ~isProcessing
  /\ Unmounted
  /\ stale' = [c \in Callers |-> stale[c] \/ pc[c] # "idle"]
  /\ UNCHANGED <<build, saveMode>>
  /\ UNCHANGED <<storeVars, now, callVars, detailVars, viewVars, serviceVars, imageVars>>

\* handleRetakeAll
RetakeAll ==
  /\ image' = NoImage
  /\ referenceImage' = NoImage
  /\ skipReference' = FALSE
  /\ extractedData' = NoData
  /\ error' = NoError

\* the mode switcher: setMode(m); handleRetakeAll()
SwitchMode(m) ==
  /\ mounted
  /\ ~Review
  /\ ~isProcessing
  /\ mode' = m
  /\ RetakeAll
  /\ UNCHANGED <<build, mounted, isProcessing, isSaving, fpc, closure,
                 saveMode, stale>>
  /\ UNCHANGED <<storeVars, now, callVars, detailVars, viewVars, serviceVars, imageVars>>

\* handleRetakeAll from 'Reset All' / 'New Scan' on the review screen, from
\* 'Try Again' under an error, or from 'Reset Grading Session' /
\* 'Reset Answer Key'
HandleRetakeAll ==
  /\ mounted
  /\ \/ Review
     \/ /\ ~Review
        /\ error # NoError
        /\ build = "Scanner.tsx" => ~(mode = "GRADE" /\ referenceImage # NoImage)
     \/ /\ ~Review
        /\ ~isProcessing
        /\ mode = "GRADE"
        /\ referenceImage # NoImage \/ skipReference
        /\ error = NoError
  /\ RetakeAll
  /\ UNCHANGED <<build, mounted, mode, isProcessing, isSaving, fpc, closure,
                 saveMode, stale>>
  /\ UNCHANGED <<storeVars, now, callVars, detailVars, viewVars, serviceVars, imageVars>>

\* an error panel that is rendered only while nothing is being processed
HandleRetakeStudentWhenIdle ==
  /\ mounted
  /\ build = "Scanner.tsx"
  /\ ~Review
  /\ ~isProcessing
  /\ error # NoError
  /\ mode = "GRADE" /\ referenceImage # NoImage
  /\ image' = NoImage
  /\ extractedData' = NoData
  /\ error' = NoError
  /\ UNCHANGED <<build, mounted, mode, referenceImage, skipReference,
                 isProcessing, isSaving, fpc, closure, saveMode, stale>>
  /\ UNCHANGED <<storeVars, now, callVars, detailVars, viewVars, serviceVars, imageVars>>

\* handleRetakeStudent (Scanner.tsx): 'Try Student Paper Again'
HandleRetakeStudent ==
  /\ mounted
  /\ build = "Scanner.tsx"
  /\ ~Review
  /\ error # NoError
  /\ mode = "GRADE" /\ referenceImage # NoImage
  /\ image' = NoImage
  /\ extractedData' = NoData
  /\ error' = NoError
  /\ UNCHANGED <<build, mounted, mode, referenceImage, skipReference,
                 isProcessing, isSaving, fpc, closure, saveMode, stale>>
  /\ UNCHANGED <<storeVars, now, callVars, detailVars, viewVars, serviceVars, imageVars>>

\* 'Skip Key (AI Auto-Grade)' (later revision): setSkipReference(true)
SkipKey ==
  /\ mounted
  /\ build = "part_001"
  /\ ~Review
  /\ ~isProcessing
  /\ mode = "GRADE" /\ referenceImage = NoImage /\ ~skipReference
  /\ skipReference' = TRUE
  /\ UNCHANGED <<build, mounted, mode, image, referenceImage, isProcessing,
                 error, isSaving, extractedData, fpc, closure, saveMode, stale>>
  /\ UNCHANGED <<storeVars, now, callVars, detailVars, viewVars, serviceVars, imageVars>>

\* a capture input that is offered while a request is being processed
HandleFileChangeWhileProcessing ==
  /\ mounted
  /\ ~Review
  /\ isProcessing' = TRUE
  /\ error' = NoError
  /\ fpc' = "processImage"
  /\ closure' = [mode |-> mode, referenceImage |-> referenceImage,
                 skipReference |-> skipReference]
  /\ UNCHANGED <<build, mounted, mode, image, referenceImage, skipReference,
                 isSaving, extractedData, saveMode, stale>>
  /\ UNCHANGED <<storeVars, now, callVars, detailVars, viewVars, serviceVars, imageVars>>

\* handleFileChange up to `await processImage(file)`: a photo is taken
HandleFileChange ==
  /\ mounted
  /\ ~Review
  /\ ~isProcessing
  /\ isProcessing' = TRUE
  /\ error' = NoError
  /\ fpc' = "processImage"
  /\ closure' = [mode |-> mode, referenceImage |-> referenceImage,
                 skipReference |-> skipReference]
  /\ UNCHANGED <<build, mounted, mode, image, referenceImage, skipReference,
                 isSaving, extractedData, saveMode, stale>>
  /\ UNCHANGED <<storeVars, now, callVars, detailVars, viewVars, serviceVars, imageVars>>

\* processImage resolves: in EXTRACT mode the image is kept and the
\* extraction is requested; in GRADE mode the first image is the reference
\* and any later one is the student's paper, whose grading is requested
ProcessImageResolved ==
  /\ mounted
  /\ fpc = "processImage"
  /\ IF closure.mode = "EXTRACT"
     THEN /\ image' = DataUrl
          /\ fpc' = "analyze"
          /\ UNCHANGED <<referenceImage, isProcessing>>
     ELSE IF closure.referenceImage = NoImage /\ ~closure.skipReference
     THEN /\ referenceImage' = DataUrl
          /\ isProcessing' = FALSE
          /\ fpc' = "idle"
          /\ UNCHANGED image
     ELSE /\ image' = DataUrl
          /\ fpc' = "grade"
          /\ UNCHANGED <<referenceImage, isProcessing>>
  /\ UNCHANGED <<build, mounted, mode, skipReference, error, isSaving,
                 extractedData, closure, saveMode, stale>>
  /\ UNCHANGED <<storeVars, now, callVars, detailVars, viewVars, serviceVars, imageVars>>

\* a catch reached after the image has already been kept (setImage before
\* the await)
ProcessImageRejectedImageKept ==
  /\ mounted
  /\ fpc = "processImage"
  /\ error' = IF build = "Scanner.tsx"
              THEN "Failed to process image. Please try again."
              ELSE "Failed to process image."
  /\ isProcessing' = FALSE
  /\ fpc' = "idle"
  /\ image' = DataUrl
  /\ UNCHANGED <<build, mounted, mode, referenceImage, skipReference,
                 isSaving, extractedData, closure, saveMode, stale>>
  /\ UNCHANGED <<storeVars, now, callVars, detailVars, viewVars, serviceVars, imageVars>>

\* processImage rejects: handleFileChange's catch
ProcessImageRejected ==
  /\ mounted
  /\ fpc = "processImage"
  /\ error' = IF build = "Scanner.tsx"
              THEN "Failed to process image. Please try again."
              ELSE "Failed to process image."
  /\ isProcessing' = FALSE
  /\ fpc' = "idle"
  /\ UNCHANGED <<build, mounted, mode, image, referenceImage, skipReference,
                 isSaving, extractedData, closure, saveMode, stale>>
  /\ UNCHANGED <<storeVars, now, callVars, detailVars, viewVars, serviceVars, imageVars>>

\* a resolution that also saves the result at once
AnalyzeResolvedAutoSave(r) ==
  /\ mounted
  /\ fpc = "analyze"
  /\ extractedData' = r
  /\ isProcessing' = FALSE
  /\ fpc' = "idle"
  /\ quizzes' = Put(quizzes, NewQuiz(r, NewStudent(1, Trim(r.studentName), now), 1, now))
  /\ UNCHANGED <<build, mounted, mode, image, referenceImage, skipReference,
                 error, isSaving, closure, saveMode, stale>>
  /\ UNCHANGED <<students, now, callVars, detailVars, viewVars, serviceVars, imageVars>>

\* processExtraction: analyzeQuizImage resolves with r
AnalyzeResolved(r) ==
  /\ mounted
  /\ fpc = "analyze"
  /\ extractedData' = r
  /\ isProcessing' = FALSE
  /\ fpc' = "idle"
  /\ UNCHANGED <<build, mounted, mode, image, referenceImage, skipReference,
                 error, isSaving, closure, saveMode, stale>>
  /\ UNCHANGED <<storeVars, now, callVars, detailVars, viewVars, serviceVars, imageVars>>

\* processExtraction: analyzeQuizImage rejects
AnalyzeRejected(err) ==
  /\ mounted
  /\ fpc = "analyze"
  /\ error' = ExtractionError(err)
  /\ extractedData' = ExtractionPlaceholder
  /\ isProcessing' = FALSE
  /\ fpc' = "idle"
  /\ UNCHANGED <<build, mounted, mode, image, referenceImage, skipReference,
                 isSaving, closure, saveMode, stale>>
  /\ UNCHANGED <<storeVars, now, callVars, detailVars, viewVars, serviceVars, imageVars>>

\* processGrading: gradeStudentPaper resolves with r
GradeResolved(r) ==
  /\ mounted
  /\ fpc = "grade"
  /\ extractedData' = r
  /\ isProcessing' = FALSE
  /\ fpc' = "idle"
  /\ UNCHANGED <<build, mounted, mode, image, referenceImage, skipReference,
                 error, isSaving, closure, saveMode, stale>>
  /\ UNCHANGED <<storeVars, now, callVars, detailVars, viewVars, serviceVars, imageVars>>

\* processGrading: gradeStudentPaper rejects
GradeRejected(err) ==
  /\ mounted
  /\ fpc = "grade"
  /\ error' = GradingError(err)
  /\ extractedData' = GradingPlaceholder
  /\ isProcessing' = FALSE
  /\ fpc' = "idle"
  /\ UNCHANGED <<build, mounted, mode, image, referenceImage, skipReference,
                 isSaving, closure, saveMode, stale>>
  /\ UNCHANGED <<storeVars, now, callVars, detailVars, viewVars, serviceVars, imageVars>>

\* the Student Name field of the review screen is edited
EditName(n) ==
  /\ mounted
  /\ Review
  /\ extractedData' = [extractedData EXCEPT !.studentName = n]
  /\ UNCHANGED <<build, mounted, mode, image, referenceImage, skipReference,
                 isProcessing, error, isSaving, fpc, closure, saveMode, stale>>
  /\ UNCHANGED <<storeVars, now, callVars, detailVars, viewVars, serviceVars, imageVars>>

\* handleSave up to `await StorageService.addQuiz(...)`; the button is
\* disabled while isSaving
\* a Save button that stays enabled while a save is in progress
HandleSaveUnguarded(c, limit) ==
  /\ mounted
  /\ Review
  /\ isSaving' = TRUE
  /\ AddQuizInvoked(c, extractedData, limit)
  /\ saveMode' = [saveMode EXCEPT ![c] = mode]
  /\ stale' = [stale EXCEPT ![c] = FALSE]
  /\ UNCHANGED <<build, mounted, mode, image, referenceImage, skipReference,
                 isProcessing, error, extractedData, fpc, closure>>

\* Scanner.handleSave up to the await: reachable only from the review screen,
\* whose Save button is disabled while isSaving
HandleSaveWithin(c, limit) ==
  /\ mounted
  /\ Review
  /\ ~isSaving
  /\ isSaving' = TRUE
  /\ AddQuizInvoked(c, extractedData, limit)
  /\ saveMode' = [saveMode EXCEPT ![c] = mode]
  /\ stale' = [stale EXCEPT ![c] = FALSE]
  /\ UNCHANGED <<build, mounted, mode, image, referenceImage, skipReference,
                 isProcessing, error, extractedData, fpc, closure>>

HandleSave(c) == HandleSaveWithin(c, MaxSaves)

\* a save that resets the whole grading session, the answer key included
SaveResolvedResetAll(c) ==
  /\ pc[c] = "done"
  /\ AddQuizSettled(c)
  /\ IF build = "part_001" /\ saveMode[c] = "GRADE"
     THEN /\ IF stale[c]
             THEN UNCHANGED <<image, extractedData, isSaving>>
             ELSE /\ extractedData' = NoData
                  /\ image' = NoImage
                  /\ isSaving' = FALSE
          /\ stale' = [stale EXCEPT ![c] = FALSE]
          /\ referenceImage' = IF stale[c] THEN referenceImage ELSE NoImage
          /\ UNCHANGED <<mounted, mode, skipReference, isProcessing, error,
                         fpc, closure>>
     ELSE IF mounted
          THEN /\ Unmounted
               /\ stale' = [b \in Callers |->
                              b # c /\ (stale[b] \/ pc[b] # "idle")]
          ELSE /\ stale' = [stale EXCEPT ![c] = FALSE]
               /\ UNCHANGED <<mounted, mode, image, referenceImage,
                              skipReference, isProcessing, error, isSaving,
                              extractedData, fpc, closure>>
  /\ UNCHANGED <<build, saveMode>>

\* handleSave after addQuiz resolved: in the later revision's GRADE mode the
\* paper is cleared for the next student, otherwise onSuccess() returns to
\* the dashboard.  The state setters of an unmounted Scanner do nothing.
SaveResolved(c) ==
  /\ pc[c] = "done"
  /\ AddQuizSettled(c)
  /\ IF build = "part_001" /\ saveMode[c] = "GRADE"
     THEN /\ IF stale[c]
             THEN UNCHANGED <<image, extractedData, isSaving>>
             ELSE /\ extractedData' = NoData
                  /\ image' = NoImage
                  /\ isSaving' = FALSE
          /\ stale' = [stale EXCEPT ![c] = FALSE]
          /\ UNCHANGED <<mounted, mode, referenceImage, skipReference,
                         isProcessing, error, fpc, closure>>
     ELSE IF mounted
          THEN /\ Unmounted
               /\ stale' = [b \in Callers |->
                              b # c /\ (stale[b] \/ pc[b] # "idle")]
          ELSE /\ stale' = [stale EXCEPT ![c] = FALSE]
               /\ UNCHANGED <<mounted, mode, image, referenceImage,
                              skipReference, isProcessing, error, isSaving,
                              extractedData, fpc, closure>>
  /\ UNCHANGED <<build, saveMode>>

\* handleSave's catch after addQuiz rejected
SaveRejected(c) ==
  /\ pc[c] = "failed"
  /\ AddQuizSettled(c)
  /\ IF stale[c]
     THEN UNCHANGED <<error, isSaving>>
     ELSE /\ error' = "Failed to save record."
          /\ isSaving' = FALSE
  /\ stale' = [stale EXCEPT ![c] = FALSE]
  /\ UNCHANGED <<build, mounted, mode, image, referenceImage, skipReference,
                 isProcessing, extractedData, fpc, closure, saveMode>>

(***************************************************************************)
(* Dashboard and StudentDetail: loading statistics and history             *)
(***************************************************************************)
\* getStats: getQuizzes resolves, the statistics are computed and the
\* Dashboard keeps them (setStats)
GetStats ==
  /\ stats' = GetStatsOf(KeyOrder(quizzes))
  /\ UNCHANGED <<storeVars, now, callVars, detailVars, scannerVars, history, serviceVars, imageVars>>

\* StudentDetail's fetchData has found the student and getStudentHistory(
\* studentId) resolves: getQuizzes resolves, the records of the student are
\* selected and sorted, and StudentDetail keeps them (setHistory)
GetStudentHistory(studentId) ==
  /\ profileId = studentId
  /\ \E foundStudent \in students : foundStudent.id = studentId
  /\ history' = GetStudentHistoryOf(KeyOrder(quizzes), studentId)
  /\ UNCHANGED <<storeVars, now, callVars, detailVars, scannerVars, stats, serviceVars, imageVars>>

(***************************************************************************)
(* geminiService: a call settles once generateContent has resolved         *)
(***************************************************************************)
\* getAiClient throws for want of an API key: the call rejects before any
\* request
GetAiClientThrows(call, revision) ==
  /\ outcome = NoOutcome
  /\ ~apiKey
  /\ outcome' = [call |-> call, revision |-> revision,
                 settled |-> IF revision = "first" THEN ApiKeyMissing
                             ELSE ConstructorThrew]
  /\ UNCHANGED <<storeVars, now, callVars, detailVars, scannerVars, viewVars,
                 responseText, apiKey, sent, imageVars>>

\* getAiClient returns a client, generateContent is sent and the call
\* settles with the reply, a rejection when there is no API key
Settles(call, revision) ==
  /\ outcome = NoOutcome
  /\ revision = "first" => apiKey
  /\ sent' = sent + 1
  /\ outcome' = [call |-> call, revision |-> revision,
                 settled |-> IF apiKey THEN SettleOf(revision, responseText)
                             ELSE ServiceRejected]
  /\ UNCHANGED <<storeVars, now, callVars, detailVars, scannerVars, viewVars,
                 responseText, apiKey, imageVars>>

(***************************************************************************)
(* processImage: the source image has loaded (img.onload)                  *)
(***************************************************************************)
ImgOnload ==
  /\ canvas = NoCanvas
  /\ canvas' = CanvasSize(img)
  /\ UNCHANGED <<storeVars, now, callVars, detailVars, scannerVars, viewVars,
                 serviceVars, img>>

(***************************************************************************)
(* Specifications                                                          *)
(***************************************************************************)
\* the storage steps of an addQuiz invocation
AddQuizStorageStep(c) ==
  \/ \E sid \in Ids, qid \in Ids : GetStudentsResolved(c, sid, qid)
  \/ GetStudentsRejected(c)
  \/ \E qid \in Ids : PutStudentResolved(c, qid)
  \/ PutStudentRejected(c)
  \/ PutQuizResolved(c)
  \/ PutQuizRejected(c)

AddQuizStep(c) ==
  \/ AddQuizStorageStep(c)
  \/ AddQuizReturn(c)

DeleteStep ==
  \/ DeleteStudentResolved
  \/ DeleteStudentRejected

\* the store under overlapping operations; the contention window is short
\* and the clock does not advance in it
Next ==
  \/ \E c \in Callers, d \in Datas : AddQuizCall(c, d, MaxCalls)
  \/ \E c \in Callers : AddQuizStep(c)
  \/ \E id \in Ids : OpenProfile(id)
  \/ HandleDelete(DELETE_CODE)
  \/ DeleteStep

Spec == Init /\ [][Next]_vars

\* no storage operation is in flight
Quiet == (\A c \in Callers : pc[c] = "idle") /\ ~isDeleting

\* the store when operations do not overlap: an operation is invoked only
\* when none is in flight
SeqNext ==
  \/ Tick
  \/ \E c \in Callers, d \in Datas : Quiet /\ AddQuizCall(c, d, MaxSeqCalls)
  \/ \E c \in Callers : AddQuizStep(c)
  \/ \E id \in Ids : OpenProfile(id)
  \/ Quiet /\ HandleDelete(DELETE_CODE)
  \/ DeleteStep

SeqSpec == Init /\ [][SeqNext]_vars

\* what the user types into the confirmation field of the delete dialog
Codes == {DELETE_CODE, "", "1234", "123456", "12346"}

\* the store and a student profile whose delete dialog is given any code
ProfileNext ==
  \/ \E c \in Callers, d \in Datas : AddQuizCall(c, d, MaxCalls)
  \/ \E c \in Callers : AddQuizStep(c)
  \/ \E id \in Ids : OpenProfile(id)
  \/ \E code \in Codes : HandleDelete(code)
  \/ DeleteStep

ProfileSpec == Init /\ [][ProfileNext]_vars

\* the Scanner and the store it saves to
ScannerInit == \E b \in Builds : InitWith(b)

ScannerNext ==
  \/ OpenScanner
  \/ Cancel
  \/ \E m \in Modes : SwitchMode(m)
  \/ HandleRetakeAll
  \/ HandleRetakeStudent
  \/ SkipKey
  \/ HandleFileChange
  \/ ProcessImageResolved
  \/ ProcessImageRejected
  \/ \E r \in ServiceResults : AnalyzeResolved(r)
  \/ \E err \in ServiceErrors : AnalyzeRejected(err)
  \/ \E r \in ServiceResults : GradeResolved(r)
  \/ \E err \in ServiceErrors : GradeRejected(err)
  \/ \E n \in TypedNames : EditName(n)
  \/ \E c \in Callers : HandleSave(c)
  \/ \E c \in Callers : AddQuizStorageStep(c)
  \/ \E c \in Callers : SaveResolved(c)
  \/ \E c \in Callers : SaveRejected(c)

ScannerSpec == ScannerInit /\ [][ScannerNext]_vars

\* The Scanner over a session long enough for a second save: every action of
\* the Scanner, with one way for the service to fail and with the identifiers
\* the storage draws fixed per call.
SavingNext ==
  \/ OpenScanner
  \/ Cancel
  \/ \E m \in Modes : SwitchMode(m)
  \/ HandleRetakeAll
  \/ HandleRetakeStudent
  \/ SkipKey
  \/ HandleFileChange
  \/ ProcessImageResolved
  \/ ProcessImageRejected
  \/ \E r \in ServiceResults : AnalyzeResolved(r)
  \/ AnalyzeRejected("other")
  \/ \E r \in ServiceResults : GradeResolved(r)
  \/ GradeRejected("other")
  \/ \E c \in Callers : HandleSaveWithin(c, MaxSessionSaves)
  \/ \E c \in Callers : GetStudentsResolved(c, c, c)
  \/ \E c \in Callers : GetStudentsRejected(c)
  \/ \E c \in Callers : PutStudentResolved(c, c)
  \/ \E c \in Callers : PutStudentRejected(c)
  \/ \E c \in Callers : PutQuizResolved(c)
  \/ \E c \in Callers : PutQuizRejected(c)
  \/ \E c \in Callers : SaveResolved(c)
  \/ \E c \in Callers : SaveRejected(c)

SavingSpec == ScannerInit /\ [][SavingNext]_vars

\* Databases for the statistics and the history: up to MaxRecords records
\* of the students Asha and Bo
StudentAsha == [id |-> 1, name |-> NameAsha, joinedAt |-> 0]
StudentBo == [id |-> 2, name |-> NameBo, joinedAt |-> 0]
RecordIds == 1..MaxRecords
\* score and totalMarks as saved from the review screen; 0 / 0 is what
\* Scanner.tsx fills in when the extraction fails
Scores == {0, 8, 9}
Totals == {0, 10, 20}

\* a record before generateId() has given it its id
Shape(st, sc, tm, ts) ==
  [id |-> 0, studentId |-> st.id, studentName |-> st.name, subject |-> "Quiz",
   score |-> sc, totalMarks |-> tm, timestamp |-> ts]

\* the records of a database: the shape in slot i was saved with id i, and
\* NoQuiz is an empty slot
StoreOf(slots) ==
  {[slots[i] EXCEPT !.id = i] : i \in {j \in RecordIds : slots[j] # NoQuiz}}

StudentsOf(qs) == {st \in {StudentAsha, StudentBo} : \E q \in qs : q.studentId = st.id}

\* getStats over the databases whose records differ in student, score and
\* totalMarks
StatsShapes ==
  {NoQuiz} \cup {Shape(st, sc, tm, 0) :
                   st \in {StudentAsha, StudentBo}, sc \in Scores, tm \in Totals}

StatsInit ==
  \E slots \in [RecordIds -> StatsShapes] :
    InitStore("part_001", StudentsOf(StoreOf(slots)), StoreOf(slots))

StatsNext == GetStats

StatsSpec == StatsInit /\ [][StatsNext]_vars

\* getStudentHistory over the databases whose records differ in student and
\* timestamp, from the profile of either student
HistoryShapes ==
  {NoQuiz} \cup {Shape(st, 8, 10, ts) :
                   st \in {StudentAsha, StudentBo}, ts \in Times}

HistoryInit ==
  \E slots \in [RecordIds -> HistoryShapes] :
    InitStore("part_001", StudentsOf(StoreOf(slots)), StoreOf(slots))

HistoryNext ==
  \/ \E id \in {StudentAsha.id, StudentBo.id} : OpenProfile(id)
  \/ \E id \in {StudentAsha.id, StudentBo.id} : GetStudentHistory(id)

HistorySpec == HistoryInit /\ [][HistoryNext]_vars

\* Responses: the structured results a response may carry, the ways a
\* response wraps one, and texts that carry none.
NameTicks == <<"A", Backtick, Backtick, Backtick, "b">>
NameBraces == <<"{", "A", "}">>
SubjectQuiz == <<"Q", "u", "i", "z">>
SubjectMath == <<"M", "a", "t", "h">>
StringMember(key, s) == [key |-> key, str |-> TRUE, s |-> s, n |-> 0]
NumberMember(key, n) == [key |-> key, str |-> FALSE, s |-> <<>>, n |-> n]
ResultOf(name, score, total, subject) ==
  JsonObject(<<StringMember(KeyStudentName, name),
               NumberMember(KeyScore, score),
               NumberMember(KeyTotalMarks, total),
               StringMember(KeySubject, subject)>>)
Results ==
  {ResultOf(name, marks[1], marks[2], subject) :
     name \in {NameAsha, NameBo, NameTicks, NameBraces},
     marks \in {<<8, 10>>, <<0, 0>>},
     subject \in {SubjectQuiz, SubjectMath}}

Fenced(t) == FenceJson \o <<"\n">> \o t \o <<"\n">> \o Fence
ProseLead == <<"H", "e", "r", "e", ":", "\n">>
ProseLeadBraces == <<"{", "s", "e", "e", "}", ":", "\n">>
ProseTrail == <<"\n", "D", "o", "n", "e">>
Wrappings == {"bare", "fenced", "prose", "prose with braces"}
Wrap(w, t) ==
  CASE w = "bare" -> t
    [] w = "fenced" -> Fenced(t)
    [] w = "prose" -> ProseLead \o Fenced(t) \o ProseTrail
    [] OTHER -> ProseLeadBraces \o Fenced(t) \o ProseTrail

\* responses that carry no structured result
OnlyName == JsonObject(<<StringMember(KeyStudentName, NameBo)>>)
ScoreAsString ==
  JsonObject(<<StringMember(KeyStudentName, NameBo),
               StringMember(KeyScore, <<"8">>),
               NumberMember(KeyTotalMarks, 10),
               StringMember(KeySubject, SubjectQuiz)>>)
OtherTexts ==
  {<<>>, <<"4", "2">>, Quoted(NameBo), ProseLead, <<"{">>, <<"}", " ", "{">>,
   Fenced(<<"4", "2">>), Stringify(JsonObject(<<>>)),
   Stringify(OnlyName), Fenced(Stringify(OnlyName)),
   Stringify(ScoreAsString), Fenced(Stringify(ScoreAsString))}

ResponseTexts ==
  {Wrap(w, Stringify(r)) : w \in Wrappings, r \in Results} \cup OtherTexts

ParserInit ==
  \E text \in ResponseTexts : InitResponse("part_001", {}, {}, text)
ParserNext ==
  \E call \in ServiceCalls, revision \in Revisions : Settles(call, revision)
ParserSpec == ParserInit /\ [][ParserNext]_vars

\* Images: the sizes a photo may have
SourceWidths == {1, 800, 1200, 1599, 1600, 1601, 2000, 2400, 3000, 3200, 4000}
SourceHeights == {1, 600, 1200, 1600, 1601, 1800, 2000, 2999, 3000, 4000}
\* Credentials: the API key is configured or not
CredentialInit ==
  \E text \in ResponseTexts, key \in BOOLEAN :
    InitService("part_001", {}, {}, text, NoCanvas, key)
CredentialNext ==
  \E call \in ServiceCalls, revision \in Revisions :
    GetAiClientThrows(call, revision) \/ Settles(call, revision)
CredentialSpec == CredentialInit /\ [][CredentialNext]_vars

ImageInit ==
  \E w \in SourceWidths, h \in SourceHeights :
    InitImage("part_001", {}, {}, <<>>, [width |-> w, height |-> h])
ImageNext == ImgOnload
ImageSpec == ImageInit /\ [][ImageNext]_vars

TypeOK ==
  /\ \A s \in students : s.id \in Ids /\ s.joinedAt \in Times
  /\ \A q \in quizzes : q.id \in Ids /\ q.studentId \in Ids
  /\ \A s, t \in students : s.id = t.id => s = t
  /\ \A q, r \in quizzes : q.id = r.id => q = r
  /\ pc \in [Callers -> {"idle", "getStudents", "putStudent", "putQuiz", "done", "failed"}]

(***************************************************************************)
(* Properties                                                              *)
(***************************************************************************)
\* the normalized form of a name: trimmed and case-folded
Normalized(n) == ToLowerCase(Trim(n))

StudentsNamed(n) == {s \in students : Normalized(s.name) = Normalized(n)}

\* C1: two overlapping addQuiz calls whose names normalize to the same name
\* leave exactly one Student with that name once both have completed (no
\* delete having been invoked)
C1_OneStudentPerName ==
  \A c, d \in Callers :
    (/\ c # d
     /\ pc[c] = "done" /\ pc[d] = "done"
     /\ Normalized(data[c].studentName) = Normalized(data[d].studentName)
     /\ ndeletes = 0)
    => Cardinality(StudentsNamed(data[c].studentName)) = 1

\* C2: when addQuiz calls do not overlap, no two stored Students share a
\* normalized name, and the record a call returns carries the id of the one
\* stored Student whose normalized name is that of the call's input
C2_SameSingleStudent ==
  /\ \A s, t \in students : Normalized(s.name) = Normalized(t.name) => s = t
  /\ \A c \in Callers :
       pc[c] = "done" =>
         /\ Cardinality(StudentsNamed(data[c].studentName)) = 1
         /\ \A s \in StudentsNamed(data[c].studentName) :
              newQuiz[c].studentId = s.id

\* "Asha", " asha " and "ASHA" have been saved in turn: the third call matched
\* the Student created as "Asha", which is the only one stored, and the
\* stored records carry its id
C2_Witness ==
  \E c \in Callers :
    /\ ncalls = 3
    /\ pc[c] = "done"
    /\ data[c].studentName = NameUpper
    /\ ~created[c]
    /\ students = {student[c]}
    /\ student[c].name = NameAsha
    /\ newQuiz[c].studentId = student[c].id
    /\ Cardinality(quizzes) >= 2
    /\ \A q \in quizzes : q.studentId = student[c].id

\* C3: in every reachable state every stored QuizRecord's studentId is the
\* id of a stored Student
C3_NoOrphanRecord ==
  \A q \in quizzes : \E s \in students : s.id = q.studentId

\* C4: an addQuiz call that has failed has left no Student it created in
\* the store (when calls do not overlap, the put of the created Student is
\* the only step of a failed call that changes a collection, so this is
\* "both collections are as they were before the call")
C4_FailedCallLeavesNoTrace ==
  \A c \in Callers :
    pc[c] = "failed" => ~(created[c] /\ student[c] \in students)

\* a step in which the profile's deleteStudent call completes successfully
DeleteCompletes == isDeleting /\ ~isDeleting' /\ profileId' = 0

\* a step in which the profile's deleteStudent call ends, either way
DeleteEnds == isDeleting /\ ~isDeleting'

\* C5: when deleteStudent(id) completes, no Student with that id and no
\* QuizRecord with studentId = id remain stored
C5_CascadeLeavesNothing ==
  [][DeleteCompletes =>
       /\ \A s \in students' : s.id # profileId
       /\ \A q \in quizzes' : q.studentId # profileId]_vars

\* a delete has completed for a student that had records
C5_Witness ==
  /\ lastDelete.id # 0
  /\ lastDelete.removed >= 1
  /\ \A s \in students : s.id # lastDelete.id
  /\ \A q \in quizzes : q.studentId # lastDelete.id

\* C6: the step that ends a cascading delete either leaves both collections
\* as they were, or removes the Student together with all its records and
\* nothing else; it never removes one without the other
C6_DeleteAllOrNothing ==
  [][DeleteEnds =>
       \/ students' = students /\ quizzes' = quizzes
       \/ /\ students' = {s \in students : s.id # profileId}
          /\ quizzes' = {q \in quizzes : q.studentId # profileId}
          /\ \A s \in students' : s.id # profileId
          /\ \A q \in quizzes' : q.studentId # profileId]_vars

\* a delete has removed a Student and its records while other records stay
C6_Witness ==
  /\ lastDelete.id # 0
  /\ lastDelete.removed >= 1
  /\ quizzes # {}
  /\ \A q \in quizzes : \E s \in students : s.id = q.studentId

\* C7: the record a completed addQuiz has stored carries the name of the
\* stored Student its studentId refers to
C7_CanonicalName ==
  \A c \in Callers :
    pc[c] = "done" =>
      /\ newQuiz[c] \in quizzes
      /\ \E s \in students :
           s.id = newQuiz[c].studentId /\ s.name = newQuiz[c].studentName

\* " asha " has been saved while Student "Asha" existed: the record says "Asha"
C7_Witness ==
  \E c \in Callers :
    /\ pc[c] = "done"
    /\ data[c].studentName = NamePadded
    /\ ~created[c]
    /\ newQuiz[c].studentName = NameAsha
    /\ newQuiz[c] \in quizzes

\* a step of call c
StepOf(c) == pc'[c] # pc[c]

\* C8: when the input of addQuiz matches a stored Student, the call puts no
\* Student: its resolution goes on to the record with the stored Student
\* as it is, and no step of the call changes the students collection
C8_MatchLeavesStudents ==
  [][\A c \in Callers :
       /\ (StepOf(c) /\ pc[c] = "getStudents"
             /\ StudentsNamed(data[c].studentName) # {})
          => /\ students' = students
             /\ pc'[c] \in {"putQuiz", "failed"}
             /\ pc'[c] = "putQuiz" =>
                  /\ student'[c] \in students
                  /\ student'[c] \in StudentsNamed(data[c].studentName)
       /\ (StepOf(c) /\ pc[c] = "putQuiz" /\ ~created[c])
          => students' = students]_vars

\* a call has matched a Student stored earlier under another spelling, and
\* the Student is stored as it was
C8_Witness ==
  \E c \in Callers :
    /\ pc[c] = "done"
    /\ ~created[c]
    /\ student[c] \in students
    /\ student[c].joinedAt < now
    /\ student[c].name # Trim(data[c].studentName)

\* C9: a put of addQuiz never replaces a stored entity: the put of the
\* record adds one record and keeps all others, the put of a Student adds
\* one Student and keeps all others
C9_PutNeverReplaces ==
  [][\A c \in Callers :
       /\ (pc[c] = "putQuiz" /\ pc'[c] = "done")
          => /\ quizzes \subseteq quizzes'
             /\ Cardinality(quizzes') = Cardinality(quizzes) + 1
             /\ students' = students
       /\ (pc[c] = "putStudent" /\ pc'[c] = "putQuiz")
          => /\ students \subseteq students'
             /\ Cardinality(students') = Cardinality(students) + 1
             /\ quizzes' = quizzes]_vars

\* a step that starts an addQuiz invocation
Invokes(c) == pc[c] = "idle" /\ pc'[c] # "idle"

\* a step in which a put of an addQuiz invocation resolves
PutStep(c) == pc[c] \in {"putStudent", "putQuiz"} /\ pc'[c] # pc[c]

\* C10: no step of the Scanner's handlers (capture, preprocessing,
\* extraction, grading, retake, mode switch, skip, cancel, edit, and the
\* continuations of save) changes the students or quizzes collection; the
\* collections change only in the puts of an addQuiz invocation, and addQuiz
\* is invoked only by handleSave, on the review screen, with the reviewed
\* result
C10_OnlySaveWrites ==
  [][/\ scannerVars' # scannerVars => (students' = students /\ quizzes' = quizzes)
     /\ (students' # students \/ quizzes' # quizzes)
          => \E c \in Callers : PutStep(c)
     /\ \A c \in Callers :
          Invokes(c) => /\ mounted /\ Review /\ ~isSaving /\ isSaving'
                        /\ data'[c] = extractedData]_vars

\* a paper has been graded against a captured key and is under review, a
\* capture having failed before, and nothing has been saved or stored
C10_Witness ==
  /\ mounted
  /\ mode = "GRADE"
  /\ referenceImage # NoImage
  /\ Review
  /\ error # NoError
  /\ ncalls = 0
  /\ students = {}
  /\ quizzes = {}

\* the Scanner shows a failure: the message set by handleFileChange's catch,
\* by processExtraction / processGrading or by handleSave's catch is on screen
FailureShown == mounted /\ error # NoError

\* C11: in every Scanner state that shows a failure, a user action that
\* discards and restarts the capture (handleRetakeAll, handleRetakeStudent)
\* or retries the step (a new capture, a new save) is enabled
C11_FailureLeavesForwardAction ==
  FailureShown =>
    \/ ENABLED HandleRetakeAll
    \/ ENABLED HandleRetakeStudent
    \/ ENABLED HandleFileChange
    \/ ENABLED (\E c \in Callers : HandleSave(c))

\* a save has failed while the student's paper was being captured again in
\* Auto-Grade mode with the key in place: the capture button and the mode
\* switcher are hidden, and 'Try Student Paper Again' is what is left
C11_Witness ==
  /\ build = "Scanner.tsx"
  /\ mounted
  /\ error = "Failed to save record."
  /\ isProcessing
  /\ ~Review
  /\ mode = "GRADE" /\ referenceImage # NoImage

\* a step in which analyzeQuizImage or gradeStudentPaper rejects and the
\* catch of processExtraction / processGrading runs
ServiceFails ==
  \/ \E err \in ServiceErrors : AnalyzeRejected(err)
  \/ \E err \in ServiceErrors : GradeRejected(err)

\* the placeholder names and subjects of the two builds
PlaceholderNames == {<<"U", "n", "k", "n", "o", "w", "n">>,
                     <<"C", "h", "e", "c", "k", " ", "N", "a", "m", "e">>}
PlaceholderSubjects == {"Quiz", "General"}

\* C12: when analyzeQuizImage or gradeStudentPaper fails, the
\* Scanner holds a placeholder result with score 0 and a placeholder name and
\* subject, the image is the one it had, processing has ended, and the
\* review screen is shown
C12_ReviewAlwaysReached ==
  [][ServiceFails =>
       /\ extractedData'.score = 0
       /\ extractedData'.studentName \in PlaceholderNames
       /\ extractedData'.subject \in PlaceholderSubjects
       /\ image' = image
       /\ ~isProcessing'
       /\ Review']_vars

\* what the catch itself guarantees: the placeholder is set, the image is left
\* as it is and processing has ended; the review screen is shown if the
\* capture was not discarded while it was in flight
CatchKeepsImage ==
  [][ServiceFails =>
       /\ extractedData'.score = 0
       /\ extractedData'.studentName \in PlaceholderNames
       /\ extractedData'.subject \in PlaceholderSubjects
       /\ extractedData' # NoData
       /\ image' = image
       /\ ~isProcessing'
       /\ error' # NoError
       /\ image # NoImage => Review']_vars

\* what highestScorer shows of a record
Scorer(q) == [name |-> q.studentName, score |-> q.score, subject |-> q.subject]

\* the records a percentage can be computed for
Valid(q) == q.totalMarks > 0

\* C13: what getStats returns is free of divisions by a non-positive
\* totalMarks: averageScore is a finite number, and highestScorer is taken
\* from a record with positive totalMarks whenever there is one
C13_NoDivisionByNonPositive ==
  [][GetStats =>
       /\ stats'.averageScore.kind \in {"zero", "num"}
       /\ (\E q \in quizzes : Valid(q))
            => \E q \in quizzes : Valid(q) /\ stats'.highestScorer = Scorer(q)]_vars

RECURSIVE ProductOfTotals(_, _)
ProductOfTotals(list, i) ==
  IF i > Len(list) THEN 1 ELSE list[i].totalMarks * ProductOfTotals(list, i + 1)

\* the sum of score / totalMarks over the list, times d, where d is a
\* multiple of every totalMarks
RECURSIVE SumOfRatiosTimes(_, _, _)
SumOfRatiosTimes(list, i, d) ==
  IF i > Len(list) THEN 0
  ELSE list[i].score * (d \div list[i].totalMarks) + SumOfRatiosTimes(list, i + 1, d)

\* the mean over the list of (score / totalMarks) * 100, as the number
\* nearest to it
MeanPercentage(list) ==
  LET d == ProductOfTotals(list, 1)
  IN DivInt(FromInt(100 * SumOfRatiosTimes(list, 1, d)), d * Len(list))

\* C14: for a non-empty database whose records all have positive totalMarks,
\* getStats returns totalQuizzes equal to the number of records and
\* averageScore equal to the mean of (score / totalMarks) * 100; 8/10 for
\* Asha and 9/10 for Bo give 85 and highestScorer.name Bo
C14_MeanOfPercentages ==
  [][(GetStats /\ quizzes # {} /\ \A q \in quizzes : Valid(q)) =>
       /\ stats'.totalQuizzes = Cardinality(quizzes)
       /\ stats'.averageScore = MeanPercentage(KeyOrder(quizzes))
       /\ (\E t \in Times :
             quizzes = {[Shape(StudentAsha, 8, 10, t) EXCEPT !.id = 1],
                        [Shape(StudentBo, 9, 10, t) EXCEPT !.id = 2]})
            => /\ stats'.averageScore = FromInt(85)
               /\ stats'.highestScorer.name = NameBo]_vars

\* score / totalMarks of q is at least that of r (0/0 is no ratio, and a
\* positive score over 0 counts as larger than every finite ratio)
RatioAtLeast(q, r) == q.score * r.totalMarks >= r.score * q.totalMarks

HasRatio(q) == ~(q.score = 0 /\ q.totalMarks = 0)

\* C15: highestScorer is taken from a record whose ratio is maximal over the
\* records, and of the records of maximal ratio from the one that comes
\* first in iteration (key) order
C15_FirstMaximalRatio ==
  [][(GetStats /\ \E q \in quizzes : HasRatio(q)) =>
       LET list == KeyOrder(quizzes)
       IN \E k \in 1..Len(list) :
            /\ HasRatio(list[k])
            /\ stats'.highestScorer = Scorer(list[k])
            /\ \A j \in 1..Len(list) :
                 HasRatio(list[j]) => RatioAtLeast(list[k], list[j])
            /\ \A j \in 1..(k - 1) :
                 HasRatio(list[j]) => ~RatioAtLeast(list[j], list[k])]_vars

\* C16: with no stored record, getStats returns totalQuizzes 0,
\* averageScore 0 and highestScorer null
C16_EmptyStats ==
  [][(GetStats /\ quizzes = {}) =>
       stats' = [totalQuizzes |-> 0, averageScore |-> Zero,
                 highestScorer |-> NoScorer]]_vars

\* the Dashboard has loaded the statistics of an empty database
C16_Witness ==
  /\ quizzes = {}
  /\ students = {}
  /\ stats # NoStats
  /\ stats.totalQuizzes = 0

\* C17: getStudentHistory(studentId) returns exactly the stored records
\* whose studentId is the argument, each once, ordered by non-increasing
\* timestamp
C17_HistoryExactAndSorted ==
  [][\A id \in Ids :
       GetStudentHistory(id) =>
         /\ {history'[k] : k \in 1..Len(history')} = {q \in quizzes : q.studentId = id}
         /\ Len(history') = Cardinality({q \in quizzes : q.studentId = id})
         /\ \A k \in 1..(Len(history') - 1) :
              history'[k].timestamp >= history'[k + 1].timestamp]_vars

\* the history of a student with an older record of smaller id and a newer
\* one of larger id has been loaded, the database holding a record of the
\* other student too
C17_Witness ==
  /\ profileId # 0
  /\ Len(history) >= 2
  /\ history[1].timestamp > history[2].timestamp
  /\ history[1].id > history[2].id
  /\ \A k \in 1..Len(history) : history[k].studentId = profileId
  /\ \E q \in quizzes : q.studentId # profileId

\* a call of the service has settled on responseText
Settled == outcome # NoOutcome

\* C18: whenever a call has settled on the serialization of a structured
\* result, be it bare, in a fenced block, or in a fenced block with prose
\* before and after it, the call returned exactly that structured result.
C18_RoundTrip ==
  \A w \in Wrappings, r \in Results :
    Settled /\ responseText = Wrap(w, Stringify(r))
      => outcome.settled = Returned(r)

\* The round trip of the two extractJson where no string of the result
\* holds three backticks and the prose holds no brace.
RoundTripPlain ==
  \A w \in Wrappings \ {"prose with braces"}, r \in Results :
    /\ Settled
    /\ outcome.revision # "first"
    /\ responseText = Wrap(w, Stringify(r))
    /\ r.members[1].s # NameTicks
    => outcome.settled = Returned(r)

\* the text holds no opening brace with a closing brace after it
NoBracePair(text) ==
  ~\E i \in 1..Len(text), j \in 1..Len(text) :
     i < j /\ text[i] = "{" /\ text[j] = "}"

\* C19: whenever a call has settled on a response text that holds no pair
\* of braces, it threw an error and returned no value.
C19_NoBracesNoResult ==
  Settled /\ NoBracePair(responseText) => outcome.settled.status = "threw"

HasKey(v, key) == \E i \in 1..Len(v.members) : v.members[i].key = key
NumericAt(v, key) ==
  \A i \in 1..Len(v.members) : v.members[i].key = key => ~v.members[i].str

\* C20: a call returns a parsed object only if the object has all four of
\* studentName, score, totalMarks and subject, and its score and totalMarks
\* are numbers.
C20_ReturnedOnlyIfValid ==
  outcome.settled.status = "returned" /\ outcome.settled.value.type = "object"
    => /\ \A key \in RequiredKeys : HasKey(outcome.settled.value, key)
       /\ NumericAt(outcome.settled.value, KeyScore)
       /\ NumericAt(outcome.settled.value, KeyTotalMarks)

\* processImage has sized the canvas for the source image
Sized == canvas # NoCanvas

\* C21: the canvas processImage draws on is never wider nor taller than the
\* maximum, and its height is within one unit of the height that keeps the
\* source's aspect ratio at the canvas width.
C21_WithinMaximum ==
  Sized =>
    /\ canvas.width <= MAX_WIDTH
    /\ canvas.height <= MAX_WIDTH
    /\ canvas.height * img.width <= img.height * canvas.width
    /\ img.height * canvas.width < (canvas.height + 1) * img.width

\* The width never exceeds the maximum and the aspect ratio is kept within
\* one unit of height.
WidthBoundedAspectKept ==
  Sized =>
    /\ canvas.width <= MAX_WIDTH
    /\ canvas.height * img.width <= img.height * canvas.width
    /\ img.height * canvas.width < (canvas.height + 1) * img.width

\* the messages handleFileChange's catch sets
ProcessingFailures ==
  {"Failed to process image. Please try again.", "Failed to process image."}

\* C22: when processImage rejects, the capture ends with an error and with
\* nothing else changed: image, referenceImage and extractedData keep their
\* values, handleFileChange ends without a service call, and isProcessing
\* is false again.
C22_FailedPreprocessingLeavesNoResult ==
  [][ProcessImageRejected =>
       /\ error' \in ProcessingFailures
       /\ image' = image
       /\ referenceImage' = referenceImage
       /\ extractedData' = extractedData
       /\ fpc' = "idle"
       /\ ~isProcessing'
       /\ UNCHANGED <<storeVars, callVars>>]_vars

\* a student's paper failed preprocessing after the answer key was captured
C22_Witness ==
  /\ mounted
  /\ error \in ProcessingFailures
  /\ ~isProcessing
  /\ fpc = "idle"
  /\ mode = "GRADE"
  /\ referenceImage # NoImage
  /\ image = NoImage

NoKeyNoResult ==
  ~apiKey /\ Settled =>
    /\ outcome.settled.status = "threw"
    /\ outcome.revision = "first" => sent = 0

GradeFollowsCapture ==
  [][ProcessImageResolved /\ closure.mode = "GRADE" =>
       IF closure.referenceImage = NoImage /\ ~closure.skipReference
       THEN referenceImage' = DataUrl /\ fpc' = "idle"
       ELSE fpc' = "grade"]_vars

\* C25: when a save issued in GRADE mode by the later revision's Scanner
\* resolves and that Scanner is still mounted, image and extractedData are
\* cleared, isSaving is reset, and mode, referenceImage and skipReference
\* are left as they are: the Scanner stays open with its answer key.
C25_SaveKeepsAnswerKey ==
  [][\A c \in Callers :
       SaveResolved(c) /\ build = "part_001" /\ saveMode[c] = "GRADE"
         /\ ~stale[c]
       => /\ image' = NoImage
          /\ extractedData' = NoData
          /\ ~isSaving'
          /\ mounted' = mounted
          /\ UNCHANGED <<mode, referenceImage, skipReference>>]_vars

\* a graded paper has been saved and the Scanner waits for the next paper
\* with the answer key it had
C25_Witness ==
  /\ build = "part_001"
  /\ mounted
  /\ mode = "GRADE"
  /\ referenceImage # NoImage
  /\ image = NoImage
  /\ extractedData = NoData
  /\ ~isSaving
  /\ quizzes # {}
  /\ \A c \in Callers : pc[c] = "idle"
\* an addQuiz call issued by the Scanner now on screen that has not settled
InFlight(c) == pc[c] # "idle" /\ ~stale[c]

\* C26: a Scanner never has two addQuiz calls in flight.  A call of the
\* Scanner is in flight only while isSaving is true, handleSave starts only
\* when isSaving is false and no call of this Scanner is in flight, and while
\* the Scanner stays on screen isSaving returns to false only in the step in
\* which that save fails or in a step that leaves the review reset.
C26_OneSaveInFlight ==
  /\ [](\A a, b \in Callers : InFlight(a) /\ InFlight(b) => a = b)
  /\ []((\E c \in Callers : InFlight(c)) => mounted /\ isSaving)
  /\ [][\A c \in Callers :
          HandleSaveWithin(c, MaxSessionSaves)
          => ~isSaving /\ \A b \in Callers : ~InFlight(b)]_vars
  /\ [][isSaving /\ ~isSaving' /\ mounted'
        => \/ \E c \in Callers : InFlight(c) /\ SaveRejected(c)
           \/ ~Review']_vars

\* the review screen is showing a new result while the save of the previous
\* one has not settled, and another save would still fit the session
C26_Witness ==
  /\ mounted /\ Review /\ isSaving
  /\ ncalls < MaxSessionSaves
  /\ \E c \in Callers : InFlight(c) /\ data[c] # extractedData

\* an extraction or grading request, or its preprocessing, is pending
Requested == fpc # "idle"

\* C27: at most one extraction or grading request is in flight per Scanner.
\* While a request is pending isProcessing is true; a capture, a mode switch
\* and a cancel happen only when isProcessing is false and nothing is
\* pending, so the reply that sets extractedData answers the latest capture.
C27_OneRequestInFlight ==
  /\ [](Requested => mounted /\ isProcessing)
  /\ [][HandleFileChange \/ Cancel \/ (\E m \in Modes : SwitchMode(m))
        => ~isProcessing /\ ~Requested]_vars
  /\ [][extractedData' # extractedData /\ extractedData' # NoData
          /\ (\A n \in TypedNames : ~EditName(n))
        => /\ fpc \in {"analyze", "grade"} /\ isProcessing
           /\ ~Requested' /\ ~isProcessing']_vars

\* the Scanner was reset from the error panel while its request was pending:
\* the capture screen is not offered until the reply has arrived
C27_Witness ==
  /\ mounted /\ isProcessing /\ image = NoImage
  /\ fpc \in {"analyze", "grade"}

\* C28: the placeholder substituted when extraction or grading fails has
\* totalMarks > 0, and no QuizRecord with totalMarks 0 is ever stored by the
\* Scanner.
C28_PlaceholderTotalPositive ==
  /\ [][(\E err \in ServiceErrors : AnalyzeRejected(err) \/ GradeRejected(err))
        => extractedData'.totalMarks > 0]_vars
  /\ [](\A q \in quizzes : q.totalMarks > 0)

\* the same for the grading placeholder alone, and for the extraction
\* placeholder of the later revision
GradingPlaceholderTotalPositive ==
  [][(\E err \in ServiceErrors :
        GradeRejected(err) \/ (AnalyzeRejected(err) /\ build = "part_001"))
      => extractedData'.totalMarks > 0]_vars

\* C29: handleDelete invokes deleteStudent only with the code "12345"; with
\* any other code it sets the error message, starts no deletion and leaves
\* students and quizzes as they are, and a deletion is started by no other
\* step.
C29_DeleteOnlyWithCode ==
  /\ [][\A code \in Codes :
          HandleDelete(code)
          => IF code = "12345"
             THEN isDeleting' /\ ndeletes' = ndeletes + 1
             ELSE /\ deleteError' = "Incorrect code. Please enter 12345."
                  /\ ~isDeleting' /\ ndeletes' = ndeletes
                  /\ students' = students /\ quizzes' = quizzes]_vars
  /\ [][~isDeleting /\ isDeleting' => HandleDelete("12345")]_vars
  /\ [][DeleteStudentResolved => isDeleting /\ ndeletes > 0]_vars

\* a wrong code was entered for a student who has records: the message is
\* shown, nothing is being deleted and the student is still stored
C29_Witness ==
  /\ profileId # 0
  /\ deleteError = "Incorrect code. Please enter 12345."
  /\ ~isDeleting /\ ndeletes = 0
  /\ \E st \in students : st.id = profileId
  /\ \E q \in quizzes : q.studentId = profileId

\* C30: after a successful save the Scanner shows no error; in particular,
\* when the later revision in GRADE mode returns to the capture of the next
\* student's paper, the error of a failed grading is gone.
C30_SavedWithoutError ==
  [][\A c \in Callers :
       SaveResolved(c) /\ ~stale[c] => error' = NoError]_vars

\* the same for the saves after which the Scanner is closed
ClosingSaveShowsNoError ==
  [][\A c \in Callers :
       SaveResolved(c) /\ ~stale[c]
         /\ ~(build = "part_001" /\ saveMode[c] = "GRADE")
       => error' = NoError /\ ~mounted']_vars

====
